---------------------------- MODULE Spec2Model ----------------------------
(***************************************************************************)
(* Robust VoSPI frame capture of lepton_rs (src/src/vospi.rs, crc.rs).     *)
(*                                                                         *)
(* A packet is a sequence of bytes <<id_hi, id_lo, crc_hi, crc_lo,         *)
(* payload...>>.  The capture controller (capture_frame_into) and the      *)
(* frame assembler (read_one_frame) are modelled step by step: one action  *)
(* per call entry, per attempt start, per packet read, per backoff read    *)
(* and per loop exit.  The packet source is the environment: it holds the  *)
(* position of the camera in its stream of well-formed frames and may, a   *)
(* bounded number of times, deliver an arbitrary packet instead.           *)
(***************************************************************************)
EXTENDS Integers, Sequences, FiniteSets, TLC

VARIABLES
    cfg,                \* RobustCaptureConfig of the driver
    first_valid_synced, \* the latch
    sync_state,         \* "Unsynced" | "Seeking" | "Locked"
    diagnostics,        \* FrameDiagnostics (cumulative)
    frame,              \* the pixel buffer, a sequence of bytes
    pc,                 \* "idle" | "loop" | "read" | "backoff"
    frame_attempts,     \* locals of capture_frame_into
    resync_attempts,
    last_error,
    meta,
    backoff_i,          \* index of the backoff for-loop
    expected_segment,   \* locals of read_one_frame
    expected_packet_number,
    packets_seen,
    locked,
    result,             \* what the last call returned
    ticks,              \* the caller's tick source
    calls,              \* number of capture calls entered
    src_pos,            \* packet source: index of the next stream packet
    noise_left,         \* packet source: noise events it may still produce
    src_run,            \* packet source: it is in a run of discard packets
    src_bad_crc,        \* packet source: the CRC fields of its stream are wrong
    obs,                \* observations of the current call (history)
    hist,               \* history of the driver over its calls
    pkt,                \* the packet handed to a packet function
    ret,                \* the packet function called last and what it returned
    cc                  \* Lepton::check_camera: its position, locals and report

vars == <<cfg, first_valid_synced, sync_state, diagnostics, frame,
          pc, frame_attempts, resync_attempts, last_error, meta, backoff_i,
          expected_segment, expected_packet_number, packets_seen, locked,
          result, ticks, calls, src_pos, noise_left, src_run, src_bad_crc,
          obs, hist, pkt, ret, cc>>

---------------------------------------------------------------------------
(* Bounds of the model *)

\* capture calls made on one driver
MaxCalls == 2
\* noise events of the source over a behaviour: an arbitrary packet, or a
\* run of discard packets
MaxNoise == 1

---------------------------------------------------------------------------
(* Program constants *)

PACKET_HEADER_BYTES == 4
PACKET_DISCARD_MASK == 61440
PACKET_NUMBER_MASK == 4095
SEGMENT_BITS_MASK == 7
CRC16_POLY == 4129
\* the line whose packet ID carries the segment number
SEGMENT_LINE == 20

U16 == 65536

\* The counters of the capture engine are u32.  The per-call and per-attempt
\* counters start at 0 and the budgets of the configurations below keep them
\* far from 2^32, so their increments are written + 1.  The cumulative
\* counters of FrameDiagnostics live as long as the driver (or come from the
\* caller) and may hold any u32.  The integers of the model checker are 32
\* bits wide and signed, so a cumulative counter is held as the signed
\* integer with the same 32 bits: 0 .. 2^31 - 1 are themselves and
\* 2^31 .. 2^32 - 1 are -2^31 .. -1.
U32_MAX == -1

\* counter += 1 on a u32, in a build without overflow checks (the release
\* profile): the counter wraps from u32::MAX to 0
wrapping_inc(v) == IF v = 2147483647 THEN -2147483647 - 1 ELSE v + 1

\* a <= b on u32 values
u32_le(a, b) == IF (a >= 0) = (b >= 0) THEN a <= b ELSE a >= 0

---------------------------------------------------------------------------
(* Bit operations on bounded naturals *)

RECURSIVE BitAnd(_, _)
BitAnd(a, b) ==
    IF a = 0 \/ b = 0 THEN 0
    ELSE ((a % 2) * (b % 2)) + 2 * BitAnd(a \div 2, b \div 2)

RECURSIVE BitXor(_, _)
BitXor(a, b) ==
    IF a = 0 THEN b
    ELSE IF b = 0 THEN a
    ELSE (((a % 2) + (b % 2)) % 2) + 2 * BitXor(a \div 2, b \div 2)

u16_from_be_bytes(hi, lo) == hi * 256 + lo

u16_to_be_bytes(v) == <<(v \div 256) % 256, v % 256>>

---------------------------------------------------------------------------
(* crc.rs *)

\* mutation: the upper nibble of byte 0 stays in the CRC
crc_normalized_keeps_nibble(idx, byte) ==
    IF idx = 2 \/ idx = 3 THEN 0 ELSE byte

\* the normalisation of byte idx (0-based) for the CRC calculation
crc_normalized(idx, byte) ==
    IF idx = 0 THEN BitAnd(byte, 15)
    ELSE IF idx = 2 \/ idx = 3 THEN 0
    ELSE byte

\* the inner loop: n shift steps of the MSB-first CRC register
RECURSIVE crc_shift(_, _)
crc_shift(crc, n) ==
    IF n = 0 THEN crc
    ELSE IF BitAnd(crc, 32768) # 0
    THEN crc_shift(BitXor((crc * 2) % U16, CRC16_POLY), n - 1)
    ELSE crc_shift((crc * 2) % U16, n - 1)

\* mutation: the byte goes into the low half of the register
crc_update_low_byte(crc, normalized) == crc_shift(BitXor(crc, normalized), 8)

\* one iteration of the outer loop on an already normalised byte
crc_update(crc, normalized) == crc_shift(BitXor(crc, (normalized * 256) % U16), 8)

\* the CRC register after the first n bytes
RECURSIVE crc_after(_, _)
crc_after(bytes, n) ==
    IF n = 0 THEN 0
    ELSE crc_update(crc_after(bytes, n - 1), bytes[n])

\* the packet as the CRC loop sees it
normalized_packet(packet) ==
    [i \in 1..Len(packet) |-> crc_normalized(i - 1, packet[i])]

\* the five-byte packet with the given ID and payload and a zero CRC field
raw_packet(id, payload) == <<(id \div 256) % 256, id % 256, 0, 0, payload>>

\* The IDs and payload bytes of the packets the capture model exchanges.
ModelIds == {n * 4096 + l : n \in {0, 1, 2, 3, 15}, l \in 0..21} \cup {61731}
ModelPayloads == (1..63) \cup {255}

\* The CRC register after the bytes of those packets, tabulated once: the
\* loop is the same, evaluated ahead.
CrcTableDomain ==
    {normalized_packet(raw_packet(id, p)) : id \in ModelIds, p \in ModelPayloads}

CrcTable == [n \in CrcTableDomain |-> crc_after(n, Len(n))]

crc16_of_normalized(bytes) ==
    IF bytes \in CrcTableDomain THEN CrcTable[bytes] ELSE crc_after(bytes, Len(bytes))

None == [some |-> FALSE, value |-> 0]
Some(v) == [some |-> TRUE, value |-> v]

\* mutation: no length test
lepton_packet_crc16_spec_any_length(packet) ==
    Some(crc16_of_normalized(normalized_packet(packet)))

lepton_packet_crc16_spec(packet) ==
    IF Len(packet) < 4 THEN None
    ELSE Some(crc16_of_normalized(normalized_packet(packet)))

---------------------------------------------------------------------------
(* vospi.rs: header parsing *)

NoHeader == [some |-> FALSE, packet_id |-> 0, packet_number |-> 0,
             crc |-> 0, is_discard |-> FALSE]

\* mutation: no packet is taken for a discard packet
parse_packet_header_without_discard(packet) ==
    IF Len(packet) < PACKET_HEADER_BYTES THEN NoHeader
    ELSE LET packet_id == u16_from_be_bytes(packet[1], packet[2]) IN
         [some |-> TRUE,
          packet_id |-> packet_id,
          packet_number |-> BitAnd(packet_id, PACKET_NUMBER_MASK),
          crc |-> u16_from_be_bytes(packet[3], packet[4]),
          is_discard |-> FALSE]

parse_packet_header(packet) ==
    IF Len(packet) < PACKET_HEADER_BYTES THEN NoHeader
    ELSE LET packet_id == u16_from_be_bytes(packet[1], packet[2]) IN
         [some |-> TRUE,
          packet_id |-> packet_id,
          packet_number |-> BitAnd(packet_id, PACKET_NUMBER_MASK),
          crc |-> u16_from_be_bytes(packet[3], packet[4]),
          is_discard |-> BitAnd(packet_id, PACKET_DISCARD_MASK) = PACKET_DISCARD_MASK]

\* mutation: every line 20 is taken for a line of segment 1
decode_segment_on_packet20_as_first(header) ==
    IF header.packet_number # SEGMENT_LINE THEN None
    ELSE Some(1)

decode_segment_on_packet20(header) ==
    IF header.packet_number # SEGMENT_LINE THEN None
    ELSE Some(BitAnd(header.packet_id \div 4096, SEGMENT_BITS_MASK) % 256)

\* mutation: the top nibble decides, whatever the length of the packet
is_discard_packet_without_length(packet) ==
    Len(packet) >= 1 /\ packet[1] \div 16 = 15

is_discard_packet(packet) ==
    LET h == parse_packet_header(packet) IN IF h.some THEN h.is_discard ELSE FALSE

line_number(packet) ==
    LET h == parse_packet_header(packet) IN
    IF h.some THEN Some(h.packet_number) ELSE None

segment_number(packet) ==
    LET h == parse_packet_header(packet) IN
    IF h.some THEN decode_segment_on_packet20(h) ELSE None

\* mutation: a packet with a header validates, whatever its CRC field
validate_packet_crc_unchecked(packet) == parse_packet_header(packet).some

validate_packet_crc(packet) ==
    LET header == parse_packet_header(packet)
        calc == lepton_packet_crc16_spec(packet)
    IN  IF header.some /\ calc.some THEN header.crc = calc.value ELSE FALSE

\* mutation: the header bytes are not taken off the packet size
required_frame_buffer_len_with_header(c) ==
    c.packet_size_bytes * c.lines_per_segment * c.segments_per_frame

required_frame_buffer_len(c) ==
    IF c.packet_size_bytes < PACKET_HEADER_BYTES THEN 0
    ELSE (c.packet_size_bytes - PACKET_HEADER_BYTES)
         * c.lines_per_segment * c.segments_per_frame

\* what a packet function returned: the function, its argument, and the
\* Option<u16> or Option<u8>, the bool or the Option<PacketHeader> it gave;
\* second marks the second call of a test that compares two calls
Return(fn, arg, opt, flag, header) ==
    [fn |-> fn, arg |-> arg, opt |-> opt, flag |-> flag, header |-> header,
     second |-> FALSE]

NoReturn == Return("", <<>>, None, FALSE, NoHeader)

\* check_camera not called: no command in progress, an empty report
CheckIdle ==
    [pc |-> "idle", test |-> 0, step |-> "", set |-> FALSE, polls |-> 0,
     data |-> 0, original_source |-> None, original_constant |-> None,
     readback_source |-> 0, warmups |-> 0, tests |-> <<>>, restored |-> TRUE]

---------------------------------------------------------------------------
(* Configurations *)

Cfg(crc, resync, retries, size, lines, segs, discards, timeout, backoff) ==
    [enable_crc |-> crc,
     max_resync_attempts |-> resync,
     max_frame_retries |-> retries,
     packet_size_bytes |-> size,
     lines_per_segment |-> lines,
     segments_per_frame |-> segs,
     max_discard_packets |-> discards,
     timeout_packets |-> timeout,
     backoff_packet_reads |-> backoff]

\* two segments of two lines: the retry, resync, timeout and discard budgets
SmallConfigs ==
    {Cfg(TRUE, 2, 1, 5, 2, 2, 1, 6, 1),
     Cfg(TRUE, 2, 1, 5, 2, 2, 2, 2, 1),
     Cfg(TRUE, 0, 1, 5, 2, 2, 1, 6, 1),
     Cfg(FALSE, 2, 1, 5, 2, 2, 1, 6, 1),
     Cfg(TRUE, 2, 0, 5, 2, 2, 0, 6, 0),
     Cfg(TRUE, 1, 1, 5, 2, 2, 1, 2, 2),
     Cfg(FALSE, 0, 0, 5, 2, 2, 0, 2, 0)}

\* two segments of twenty-one lines: line 20 carries the segment number
Line20Configs ==
    {Cfg(TRUE, 2, 1, 5, 21, 2, 1, 45, 1)}

\* degenerate: a packet without room for a header, no lines, no segments
EdgeConfigs ==
    {Cfg(TRUE, 2, 1, 3, 2, 2, 1, 6, 1),
     Cfg(TRUE, 2, 1, 5, 0, 1, 1, 6, 1),
     Cfg(TRUE, 2, 1, 5, 2, 0, 1, 6, 1)}

\* the configuration of the driver whose cumulative counters are at u32::MAX
SaturatedConfigs ==
    {Cfg(TRUE, 2, 1, 5, 2, 2, 1, 6, 1)}

---------------------------------------------------------------------------
(* The packet source (trait PacketSource; the tests' MockPacketSource) *)

SpiErrors == {"e1", "e2"}

JunkPayload == 255

\* packets of one frame of the camera's stream
FramePackets(c) == c.segments_per_frame * c.lines_per_segment

\* the payload byte of the stream packet at position pos
PayloadByte(pos) == pos + 1

set_crc(packet, crc) ==
    [packet EXCEPT ![3] = u16_to_be_bytes(crc)[1], ![4] = u16_to_be_bytes(crc)[2]]

\* a five-byte packet with the given ID and payload and a correct CRC field
packet_with_id(id, payload) ==
    set_crc(raw_packet(id, payload),
            lepton_packet_crc16_spec(raw_packet(id, payload)).value)

\* the tests' mk_packet: the segment bits are set on line 20 only
mk_packet(packet_number, segment, payload) ==
    packet_with_id(IF packet_number = SEGMENT_LINE
                   THEN BitAnd(segment, 7) * 4096 + BitAnd(packet_number, 4095)
                   ELSE BitAnd(packet_number, 4095),
                   payload)

\* the packet at position pos of a well-formed frame (the tests' mk_frame)
stream_packet(c, pos) ==
    mk_packet(pos % c.lines_per_segment, (pos \div c.lines_per_segment) + 1,
              PayloadByte(pos))

corrupt_crc(packet) ==
    set_crc(packet, (u16_from_be_bytes(packet[3], packet[4]) + 1) % U16)

\* the tests' discard ID 0xF123
DiscardId == 61731

\* The arbitrary packets the source may deliver while the stream is at line
\* l: a discard packet, the line's own number under every segment nibble,
\* line 0, line 1, line 20 under every segment nibble, and a wrong CRC field
\* on a discard packet, on the line's own number, on line 0 and on line 1.
noise_packets(l) ==
    LET good == {packet_with_id(id, JunkPayload) :
                    id \in {DiscardId, 0, 1}
                           \cup {n * 4096 + l : n \in 0..3}
                           \cup {n * 4096 + SEGMENT_LINE : n \in 0..3}}
    IN  good \cup {corrupt_crc(packet_with_id(id, JunkPayload)) :
                      id \in {DiscardId, l, 0, 1}}

NoiseTable == [l \in 0..21 |-> noise_packets(l)]

StreamTable ==
    [g \in {<<2, 2>>, <<21, 2>>, <<21, 3>>} |->
        [pos \in 0..(g[1] * g[2] - 1) |->
            stream_packet([lines_per_segment |-> g[1]], pos)]]

NoisePackets(c, pos) ==
    NoiseTable[IF FramePackets(c) > 0 THEN pos % c.lines_per_segment ELSE 0]

StreamPacket(c, pos) ==
    LET g == <<c.lines_per_segment, c.segments_per_frame>>
    IN  IF g \in DOMAIN StreamTable THEN StreamTable[g][pos] ELSE stream_packet(c, pos)

next_pos(c, pos) == IF FramePackets(c) = 0 THEN 0 ELSE (pos + 1) % FramePackets(c)

Read(ok, e, packet, pos, noise, run, cost) ==
    [ok |-> ok, e |-> e, packet |-> packet, pos |-> pos, noise |-> noise,
     run |-> run, cost |-> cost]

\* Every outcome of one read_packet call: a transport error, the next packet
\* of the stream, a noise event (while the budget lasts): an arbitrary packet
\* that either replaces the next stream packet or is inserted before it, or
\* one more discard packet of the run of discard packets a noise event began.
SourceReads ==
    {Read(FALSE, e, <<>>, src_pos, FALSE, FALSE, 0) : e \in SpiErrors}
    \cup
    (IF FramePackets(cfg) > 0 /\ cfg.packet_size_bytes = 5
     THEN {Read(TRUE, "",
                IF src_bad_crc THEN corrupt_crc(StreamPacket(cfg, src_pos))
                ELSE StreamPacket(cfg, src_pos),
                next_pos(cfg, src_pos), FALSE, FALSE, 0)}
     ELSE {})
    \cup
    (IF noise_left > 0 /\ cfg.packet_size_bytes = 5
     THEN {Read(TRUE, "", p, q, TRUE, is_discard_packet(p), 1) :
              p \in NoisePackets(cfg, src_pos),
              q \in {src_pos, next_pos(cfg, src_pos)}}
     ELSE {})
    \cup
    (IF src_run
     THEN {Read(TRUE, "", packet_with_id(DiscardId, JunkPayload), src_pos,
                TRUE, TRUE, 0)}
     ELSE {})

---------------------------------------------------------------------------
(* vospi.rs: values *)

\* enum CaptureError; e is the transport error of Spi, expected and
\* observed belong to LineOutOfOrder and SegmentOutOfOrder
CaptureError(kind, e, expected, observed) ==
    [kind |-> kind, e |-> e, expected |-> expected, observed |-> observed]

Err(kind) == CaptureError(kind, "", 0, 0)

Spi(e) == CaptureError("Spi", e, 0, 0)

NoError == [some |-> FALSE, value |-> Err("")]

FrameMetaDefault ==
    [valid |-> FALSE, capture_ticks |-> 0, discard_packets |-> 0,
     crc_errors |-> 0, bad_line_count |-> 0, resync_count |-> 0]

FrameDiagnosticsDefault ==
    [discard_count |-> 0, crc_error_count |-> 0, bad_line_count |-> 0,
     resync_count |-> 0]

\* what a call returned: Ok(meta), Err(err) or a panic of the thread
NoResult == [tag |-> "none", err |-> Err(""), meta |-> FrameMetaDefault]
ResultOk(m) == [tag |-> "Ok", err |-> Err(""), meta |-> m]
ResultErr(err) == [tag |-> "Err", err |-> err, meta |-> FrameMetaDefault]
ResultPanic == [tag |-> "Panic", err |-> Err(""), meta |-> FrameMetaDefault]

Zeros(n) == [i \in 1..n |-> 0]

\* lepton.rs: LeptonError has the variants of CaptureError, the two
\* out-of-order variants without fields
LeptonError(kind, e) == [kind |-> kind, e |-> e]

from_capture(err) ==
    CASE err.kind = "Spi" -> LeptonError("Spi", err.e)
      [] err.kind = "InvalidPacket" -> LeptonError("InvalidPacket", "")
      [] err.kind = "SyncLost" -> LeptonError("SyncLost", "")
      [] err.kind = "DiscardPacketFlood" -> LeptonError("DiscardPacketFlood", "")
      [] err.kind = "CrcMismatch" -> LeptonError("CrcMismatch", "")
      [] err.kind = "SegmentOutOfOrder" -> LeptonError("SegmentOutOfOrder", "")
      [] err.kind = "LineOutOfOrder" -> LeptonError("LineOutOfOrder", "")
      [] err.kind = "Timeout" -> LeptonError("Timeout", "")
      [] err.kind = "RetryLimitExceeded" -> LeptonError("RetryLimitExceeded", "")

\* Result::map_err(LeptonError::from_capture)
map_err_from_capture(res) ==
    IF res.tag = "Err" THEN [res EXCEPT !.err = from_capture(res.err)] ELSE res

\* The public capture entry points and what each hands its caller when the
\* capture function it calls returns res. capture_frame_from_source passes
\* an error on with the ? operator; the Lepton wrappers call
\* capture_frame_into on the driver's packet buffer and a frame buffer of
\* the required length and convert its error.
VospiEntryPoints == {"capture_frame_into", "capture_frame_from_source"}

LeptonEntryPoints ==
    {"read_frame_robust_into_with_ticks", "read_frame_robust_into",
     "read_frame_robust", "read_frame_with_meta"}

entry_point_returns(entry, res) ==
    IF entry \in LeptonEntryPoints THEN map_err_from_capture(res) ELSE res

---------------------------------------------------------------------------
(* vospi.rs: the frame assembler, one packet at a time *)

\* mutation: the slot is computed from the line alone
frame_line_of_segment_1(c, segment, packet_number) == packet_number

\* the slot of the pixel buffer the accepted packet is copied to
frame_line(c, segment, packet_number) ==
    (segment - 1) * c.lines_per_segment + packet_number

\* frame[dst_start..dst_end].copy_from_slice(&packet_buf[4..size])
copy_payload(fr, dst_start, packet, c) ==
    [i \in 1..Len(fr) |->
        IF i > dst_start /\ i <= dst_start + (c.packet_size_bytes - PACKET_HEADER_BYTES)
        THEN packet[PACKET_HEADER_BYTES + (i - dst_start)]
        ELSE fr[i]]

\* mutation: the end of a segment skips the next segment
advance_cursors_skipping_a_segment(c, segment, packet_number) ==
    IF packet_number + 1 = c.lines_per_segment
    THEN [segment |-> segment + 2, packet_number |-> 0]
    ELSE [segment |-> segment, packet_number |-> packet_number + 1]

\* The cursors after an accepted packet.
advance_cursors(c, segment, packet_number) ==
    IF packet_number + 1 = c.lines_per_segment
    THEN [segment |-> segment + 1, packet_number |-> 0]
    ELSE [segment |-> segment, packet_number |-> packet_number + 1]

\* mutation: expected and observed change places
line_out_of_order_swapped(expected, observed) ==
    CaptureError("LineOutOfOrder", "", observed, expected % U16)

\* CaptureError::LineOutOfOrder { expected: expected_packet_number as u16,
\* observed: header.packet_number }
line_out_of_order(expected, observed) ==
    CaptureError("LineOutOfOrder", "", expected % U16, observed)

\* mutation: expected and observed change places
segment_out_of_order_swapped(expected, observed) ==
    CaptureError("SegmentOutOfOrder", "", observed, expected % 256)

\* CaptureError::SegmentOutOfOrder { expected: expected_segment as u8,
\* observed: segment }
segment_out_of_order(expected, observed) ==
    CaptureError("SegmentOutOfOrder", "", expected % 256, observed)

\* mutation: the CRC is checked whatever enable_crc says
crc_rejected_always_checked(c, packet) == ~validate_packet_crc(packet)

\* cfg.enable_crc && !validate_packet_crc(packet)
crc_rejected(c, packet) == c.enable_crc /\ ~validate_packet_crc(packet)

\* mutation: only segment 0 is refused
segment_invalid_if_zero(segment, c) == segment = 0

\* segment == 0 || segment as usize > cfg.segments_per_frame
segment_invalid(segment, c) == segment = 0 \/ segment > c.segments_per_frame

\* mutation: the flood is declared one discard packet early
discard_flood_early(m, c) == m.discard_packets >= c.max_discard_packets

\* meta.discard_packets > cfg.max_discard_packets
discard_flood(m, c) == m.discard_packets > c.max_discard_packets

\* mutation: the packet skipped at (segment 1, line 0) counts as a bad line
on_seeking_skip_counted(k) ==
    [k EXCEPT !.d.bad_line_count = wrapping_inc(@), !.m.bad_line_count = @ + 1]

\* the continue of a Seeking attempt at (segment 1, line 0) on a packet
\* whose line number is not 0
on_seeking_skip(k) == k

\* mutation: a Seeking attempt keeps its cursors after a CRC mismatch
on_crc_mismatch_keeps_cursors(k, lk) ==
    IF lk
    THEN [k EXCEPT !.status = "fail", !.err = Err("CrcMismatch")]
    ELSE k

\* mutation: a Locked attempt reports the packet as a bad line
on_crc_mismatch_as_bad_line(k, lk) ==
    IF lk
    THEN [k EXCEPT !.status = "fail",
                   !.d.bad_line_count = wrapping_inc(@),
                   !.m.bad_line_count = @ + 1,
                   !.err = line_out_of_order(k.ep, 0)]
    ELSE [k EXCEPT !.es = 1, !.ep = 0]

\* the CRC mismatch after the counters: Locked fails, Seeking starts over
on_crc_mismatch(k, lk) ==
    IF lk
    THEN [k EXCEPT !.status = "fail", !.err = Err("CrcMismatch")]
    ELSE [k EXCEPT !.es = 1, !.ep = 0]

\* What the body of the while loop of read_one_frame does with the packet
\* just read, the locals being es (expected_segment), ep
\* (expected_packet_number), seen (packets_seen, already incremented), lk
\* (locked), and d, m, fr the diagnostics, the FrameMeta and the pixel
\* buffer.  status is "continue" (next iteration), "fail" (return Err(err))
\* or "panic" (slice index out of range).  check_packet is the body after
\* the packet-count timeout.
check_packet(c, lk, es, ep, seen, d, m, fr, packet) ==
    LET keep == [status |-> "continue", err |-> Err(""), es |-> es, ep |-> ep,
                 d |-> d, m |-> m, fr |-> fr, wrote |-> FALSE]
        header == parse_packet_header(packet)
        packet_number == header.packet_number
        segment == decode_segment_on_packet20(header)
        payload_len == c.packet_size_bytes - PACKET_HEADER_BYTES
        dst_start == frame_line(c, es, ep) * payload_len
        next == advance_cursors(c, es, ep)
    IN
    IF ~header.some THEN
        [keep EXCEPT !.status = "fail", !.err = Err("InvalidPacket")]
    ELSE IF header.is_discard THEN
        LET k == [keep EXCEPT !.d.discard_count = wrapping_inc(@),
                              !.m.discard_packets = @ + 1]
        IN  IF discard_flood(k.m, c)
            THEN [k EXCEPT !.status = "fail", !.err = Err("DiscardPacketFlood")]
            ELSE k
    ELSE IF crc_rejected(c, packet) THEN
        LET k == [keep EXCEPT !.d.crc_error_count = wrapping_inc(@),
                              !.m.crc_errors = @ + 1]
        IN  on_crc_mismatch(k, lk)
    ELSE IF ~lk /\ es = 1 /\ ep = 0 /\ packet_number # 0 THEN
        on_seeking_skip(keep)
    ELSE IF packet_number # ep THEN
        IF lk
        THEN [keep EXCEPT !.status = "fail",
                          !.d.bad_line_count = wrapping_inc(@),
                          !.m.bad_line_count = @ + 1,
                          !.err = line_out_of_order(ep, packet_number)]
        ELSE [keep EXCEPT !.es = 1, !.ep = 0]
    ELSE IF packet_number = SEGMENT_LINE /\ ~segment.some THEN
        [keep EXCEPT !.status = "fail", !.err = Err("InvalidPacket")]
    ELSE IF packet_number = SEGMENT_LINE /\ segment_invalid(segment.value, c) THEN
        [keep EXCEPT !.status = "fail", !.err = Err("InvalidPacket")]
    ELSE IF packet_number = SEGMENT_LINE /\ segment.value # es THEN
        IF lk
        THEN [keep EXCEPT !.status = "fail",
                          !.err = segment_out_of_order(es, segment.value)]
        ELSE [keep EXCEPT !.es = 1, !.ep = 0]
    ELSE IF dst_start + payload_len > Len(fr) THEN
        [keep EXCEPT !.status = "panic"]
    ELSE
        [keep EXCEPT !.fr = copy_payload(fr, dst_start, packet, c),
                     !.es = next.segment, !.ep = next.packet_number,
                     !.wrote = TRUE]

\* mutation: the packet count is not checked
assemble_packet_unlimited(c, lk, es, ep, seen, d, m, fr, packet) ==
    check_packet(c, lk, es, ep, seen, d, m, fr, packet)

\* mutation: the timeout fires one packet early
assemble_packet_timeout_early(c, lk, es, ep, seen, d, m, fr, packet) ==
    IF seen >= c.timeout_packets
    THEN [status |-> "fail", err |-> Err("Timeout"), es |-> es, ep |-> ep,
          d |-> d, m |-> m, fr |-> fr, wrote |-> FALSE]
    ELSE check_packet(c, lk, es, ep, seen, d, m, fr, packet)

assemble_packet(c, lk, es, ep, seen, d, m, fr, packet) ==
    IF seen > c.timeout_packets
    THEN [status |-> "fail", err |-> Err("Timeout"), es |-> es, ep |-> ep,
          d |-> d, m |-> m, fr |-> fr, wrote |-> FALSE]
    ELSE check_packet(c, lk, es, ep, seen, d, m, fr, packet)

---------------------------------------------------------------------------
(* vospi.rs: the capture controller *)

LockedFatalKinds == {"CrcMismatch", "LineOutOfOrder", "SegmentOutOfOrder"}

\* the controller's part of the state, as one value
Ctl ==
    [first_valid_synced |-> first_valid_synced, sync_state |-> sync_state,
     diagnostics |-> diagnostics, meta |-> meta,
     frame_attempts |-> frame_attempts, resync_attempts |-> resync_attempts,
     last_error |-> last_error, backoff_i |-> backoff_i,
     pc |-> pc, result |-> result]

SetCtl(k) ==
    /\ first_valid_synced' = k.first_valid_synced
    /\ sync_state' = k.sync_state
    /\ diagnostics' = k.diagnostics
    /\ meta' = k.meta
    /\ frame_attempts' = k.frame_attempts
    /\ resync_attempts' = k.resync_attempts
    /\ last_error' = k.last_error
    /\ backoff_i' = k.backoff_i
    /\ pc' = k.pc
    /\ result' = k.result

return(k, res) == [k EXCEPT !.pc = "idle", !.result = res]

\* mutation: every attempt assembles as if Locked
is_locked_always(state) == TRUE

\* let locked = *sync_state == SyncState::Locked
is_locked(state) == state = "Locked"

\* mutation: no failure is surfaced immediately
immediate_locked_never(state, err) == FALSE

immediate_locked(state, err) ==
    state = "Locked" /\ err.kind \in LockedFatalKinds

\* mutation: the last error is forgotten
retry_limit_exceeded(le) == Err("RetryLimitExceeded")

\* last_error.unwrap_or(CaptureError::RetryLimitExceeded)
last_error_or_retry_limit(le) ==
    IF le.some THEN le.value ELSE Err("RetryLimitExceeded")

\* mutation: a failed attempt leaves the sync state as it was
on_attempt_error_keeps_state(k, err) ==
    LET k1 == [k EXCEPT !.diagnostics.resync_count = wrapping_inc(@),
                        !.resync_attempts = @ + 1,
                        !.frame_attempts = @ + 1,
                        !.meta.resync_count = @ + 1,
                        !.last_error = [some |-> TRUE, value |-> err]]
    IN  IF immediate_locked(k.sync_state, err)
        THEN return(k1, ResultErr(last_error_or_retry_limit(k1.last_error)))
        ELSE [k1 EXCEPT !.pc = "backoff", !.backoff_i = 0]

\* mutation: the backoff loop starts at its second iteration
on_attempt_error_short_backoff(k, err) ==
    LET k1 == [k EXCEPT !.diagnostics.resync_count = wrapping_inc(@),
                        !.resync_attempts = @ + 1,
                        !.frame_attempts = @ + 1,
                        !.meta.resync_count = @ + 1,
                        !.sync_state = "Unsynced",
                        !.last_error = [some |-> TRUE, value |-> err]]
    IN  IF immediate_locked(k.sync_state, err)
        THEN return(k1, ResultErr(last_error_or_retry_limit(k1.last_error)))
        ELSE [k1 EXCEPT !.pc = "backoff", !.backoff_i = 1]


\* mutation: a failed attempt counts as a retry but not as a resync
on_attempt_error_without_resync(k, err) ==
    LET k1 == [k EXCEPT !.diagnostics.resync_count = wrapping_inc(@),
                        !.frame_attempts = @ + 1,
                        !.meta.resync_count = @ + 1,
                        !.sync_state = "Unsynced",
                        !.last_error = [some |-> TRUE, value |-> err]]
    IN  IF immediate_locked(k.sync_state, err)
        THEN return(k1, ResultErr(last_error_or_retry_limit(k1.last_error)))
        ELSE [k1 EXCEPT !.pc = "backoff", !.backoff_i = 0]


\* mutation: a failed attempt clears the latch
on_attempt_error_clears_latch(k, err) ==
    LET k1 == [k EXCEPT !.diagnostics.resync_count = wrapping_inc(@),
                        !.resync_attempts = @ + 1,
                        !.frame_attempts = @ + 1,
                        !.meta.resync_count = @ + 1,
                        !.sync_state = "Unsynced",
                        !.first_valid_synced = FALSE,
                        !.last_error = [some |-> TRUE, value |-> err]]
    IN  IF immediate_locked(k.sync_state, err)
        THEN return(k1, ResultErr(last_error_or_retry_limit(k1.last_error)))
        ELSE [k1 EXCEPT !.pc = "backoff", !.backoff_i = 0]

\* the arm Err(err) of the match on read_one_frame's result
on_attempt_error(k, err) ==
    LET k1 == [k EXCEPT !.diagnostics.resync_count = wrapping_inc(@),
                        !.resync_attempts = @ + 1,
                        !.frame_attempts = @ + 1,
                        !.meta.resync_count = @ + 1,
                        !.sync_state = "Unsynced",
                        !.last_error = [some |-> TRUE, value |-> err]]
    IN  IF immediate_locked(k.sync_state, err)
        THEN return(k1, ResultErr(last_error_or_retry_limit(k1.last_error)))
        ELSE [k1 EXCEPT !.pc = "backoff", !.backoff_i = 0]

\* mutation: a transport error is handled like any failed attempt
on_transport_error_retried(k, e) == on_attempt_error(k, Spi(e))

\* the arm Err(CaptureError::Spi(e)), and the ? of the backoff loop
on_transport_error(k, e) == return(k, ResultErr(Spi(e)))

\* mutation: a captured frame does not set the latch
on_attempt_ok_without_latch(k) ==
    LET m == [k.meta EXCEPT !.valid = TRUE]
    IN  return([k EXCEPT !.sync_state = "Locked", !.meta = m], ResultOk(m))

\* read_one_frame leaving its loop, and the arm Ok(())
on_attempt_ok(k) ==
    LET m == [k.meta EXCEPT !.valid = TRUE]
    IN  return([k EXCEPT !.sync_state = "Locked", !.first_valid_synced = TRUE,
                         !.meta = m],
               ResultOk(m))

\* mutation: the retry limit is checked before the resync limit
after_backoff_retries_first(k, c) ==
    IF k.frame_attempts > c.max_frame_retries
    THEN return(k, ResultErr(last_error_or_retry_limit(k.last_error)))
    ELSE IF k.resync_attempts > c.max_resync_attempts
    THEN return(k, ResultErr(Err("SyncLost")))
    ELSE [k EXCEPT !.pc = "loop"]

\* what follows the backoff reads
after_backoff(k, c) ==
    IF k.resync_attempts > c.max_resync_attempts
    THEN return(k, ResultErr(Err("SyncLost")))
    ELSE IF k.frame_attempts > c.max_frame_retries
    THEN return(k, ResultErr(last_error_or_retry_limit(k.last_error)))
    ELSE [k EXCEPT !.pc = "loop"]

\* mutation: the FrameMeta of an attempt is not stamped
loop_head_without_ticks(k, c, now) ==
    IF ~(k.frame_attempts <= c.max_frame_retries)
    THEN return(k, ResultErr(last_error_or_retry_limit(k.last_error)))
    ELSE IF k.resync_attempts > c.max_resync_attempts
    THEN return([k EXCEPT !.sync_state = "Unsynced"], ResultErr(Err("SyncLost")))
    ELSE [k EXCEPT !.sync_state = IF k.first_valid_synced THEN "Locked" ELSE "Seeking",
                   !.meta = FrameMetaDefault,
                   !.pc = "read"]


\* mutation: the FrameMeta of the attempt before is carried over
loop_head_keeps_meta(k, c, now) ==
    IF ~(k.frame_attempts <= c.max_frame_retries)
    THEN return(k, ResultErr(last_error_or_retry_limit(k.last_error)))
    ELSE IF k.resync_attempts > c.max_resync_attempts
    THEN return([k EXCEPT !.sync_state = "Unsynced"], ResultErr(Err("SyncLost")))
    ELSE [k EXCEPT !.sync_state = IF k.first_valid_synced THEN "Locked" ELSE "Seeking",
                   !.meta = [k.meta EXCEPT !.capture_ticks = now],
                   !.pc = "read"]


\* mutation: an incoming Locked sync_state makes the attempt run Locked
loop_head_trusts_sync_state(k, c, now) ==
    IF ~(k.frame_attempts <= c.max_frame_retries)
    THEN return(k, ResultErr(last_error_or_retry_limit(k.last_error)))
    ELSE IF k.resync_attempts > c.max_resync_attempts
    THEN return([k EXCEPT !.sync_state = "Unsynced"], ResultErr(Err("SyncLost")))
    ELSE [k EXCEPT !.sync_state = IF k.first_valid_synced \/ k.sync_state = "Locked"
                                  THEN "Locked" ELSE "Seeking",
                   !.meta = [FrameMetaDefault EXCEPT !.capture_ticks = now],
                   !.pc = "read"]

\* the head of the retry loop, up to the call of read_one_frame
loop_head(k, c, now) ==
    IF ~(k.frame_attempts <= c.max_frame_retries)
    THEN return(k, ResultErr(last_error_or_retry_limit(k.last_error)))
    ELSE IF k.resync_attempts > c.max_resync_attempts
    THEN return([k EXCEPT !.sync_state = "Unsynced"], ResultErr(Err("SyncLost")))
    ELSE [k EXCEPT !.sync_state = IF k.first_valid_synced THEN "Locked" ELSE "Seeking",
                   !.meta = [FrameMetaDefault EXCEPT !.capture_ticks = now],
                   !.pc = "read"]

\* mutation: the lengths of the buffers are not checked
preconditions_hold_whatever_the_buffers(c, frame_len, packet_buf_len) ==
    ~(c.packet_size_bytes < PACKET_HEADER_BYTES)

\* the preconditions of capture_frame_into
preconditions_hold(c, frame_len, packet_buf_len) ==
    /\ ~(c.packet_size_bytes < PACKET_HEADER_BYTES)
    /\ ~(packet_buf_len < c.packet_size_bytes
         \/ frame_len < required_frame_buffer_len(c))

---------------------------------------------------------------------------
(* Observations of the current call *)

NoSpi == [at |-> 0, e |-> "", phase |-> ""]

\* the latest read_packet call: the attempt it belongs to, the packet it
\* delivered (<<>> on a transport error) and the locals it found
NoRead == [attempt |-> 0, phase |-> "", packet |-> <<>>, segment |-> 0,
           line |-> 0, seen |-> 0]

\* What is recorded when a call is entered: how it was entered (via), the
\* state and the buffers it found, and the counts of the call so far.
\* att_reads and att_discards are the packets and the discard packets the
\* current attempt has read; writes are the line slots of the pixel buffer
\* the call has written, in the order of the writes.
ObsAtEntry ==
    [entry_latch |-> first_valid_synced, entry_pos |-> src_pos,
     entry_state |-> sync_state, entry_ticks |-> ticks,
     via |-> "", entry_frame |-> frame, entry_packet_buf_len |-> 0,
     entry_diag |-> diagnostics, att_diag |-> diagnostics,
     reads |-> 0, attempts |-> 0, backoff_reads |-> 0,
     att_errs |-> <<>>, noise |-> <<>>, spi |-> NoSpi, last |-> NoRead,
     writes |-> <<>>, att_reads |-> 0, att_discards |-> 0]

\* a read_packet call with outcome r made in the given phase
ObsRead(o, r, phase) ==
    [o EXCEPT !.reads = @ + 1,
              !.att_reads = IF r.ok /\ phase = "assemble" THEN @ + 1 ELSE @,
              !.att_discards = IF r.ok /\ phase = "assemble"
                                  /\ is_discard_packet(r.packet)
                               THEN @ + 1 ELSE @,
              !.last = [attempt |-> o.attempts, phase |-> phase,
                        packet |-> r.packet, segment |-> expected_segment,
                        line |-> expected_packet_number,
                        seen |-> packets_seen + 1],
              !.noise = IF r.noise
                        THEN Append(@, [at |-> o.reads + 1,
                                        discard |-> is_discard_packet(r.packet),
                                        inserted |-> r.pos = src_pos])
                        ELSE @,
              !.spi = IF r.ok THEN @
                      ELSE [at |-> o.reads + 1, e |-> r.e, phase |-> phase]]

---------------------------------------------------------------------------
(* Actions *)

StartPositions(c) ==
    IF FramePackets(c) = 0 THEN {0}
    ELSE {q \in 0..(FramePackets(c) - 1) :
            q % c.lines_per_segment \in {0, 1} \/ q = FramePackets(c) - 1}

\* the locals of a call before the first call, and the source
InitCall ==
    /\ frame = <<>>
    /\ pc = "idle"
    /\ frame_attempts = 0
    /\ resync_attempts = 0
    /\ last_error = NoError
    /\ meta = FrameMetaDefault
    /\ backoff_i = 0
    /\ expected_segment = 1
    /\ expected_packet_number = 0
    /\ packets_seen = 0
    /\ locked = FALSE
    /\ result = NoResult
    /\ noise_left = MaxNoise
    /\ src_run = FALSE

\* The driver as constructed by Lepton::new (latch false, Unsynced), or the
\* latch and state the tests' run_capture_locked passes to the capture
\* function (true, Locked), on a stream at some position.
InitDriver ==
    /\ cfg \in SmallConfigs \cup EdgeConfigs
    /\ first_valid_synced \in BOOLEAN
    /\ sync_state = IF first_valid_synced THEN "Locked" ELSE "Unsynced"
    /\ diagnostics = FrameDiagnosticsDefault
    /\ ticks = 0
    /\ calls = 0
    /\ src_pos \in StartPositions(cfg)
    /\ src_bad_crc \in IF cfg.enable_crc THEN {FALSE} ELSE BOOLEAN
    /\ InitCall
    /\ obs = ObsAtEntry
    /\ pkt = <<>>
    /\ ret = NoReturn
    /\ cc = CheckIdle
    /\ hist = [constructed |-> ~first_valid_synced, oks |-> 0]

\* The states the tests' run_capture and run_capture_locked start a capture
\* in, for the geometry that has a line 20: synced = false with Unsynced, or
\* synced = true with Locked, zero diagnostics, one call left.
InitLine20 ==
    /\ cfg \in Line20Configs
    /\ first_valid_synced \in BOOLEAN
    /\ sync_state = IF first_valid_synced THEN "Locked" ELSE "Unsynced"
    /\ diagnostics = FrameDiagnosticsDefault
    /\ ticks = 0
    /\ calls = MaxCalls - 1
    /\ src_pos \in {0, FramePackets(cfg) - 1}
    /\ src_bad_crc = FALSE
    /\ InitCall
    /\ obs = ObsAtEntry
    /\ pkt = <<>>
    /\ ret = NoReturn
    /\ cc = CheckIdle
    /\ hist = [constructed |-> ~first_valid_synced, oks |-> 0]

\* A driver that has counted 2^32 - 1 events of each kind, or a caller of
\* the capture function that passes such FrameDiagnostics, with one call
\* left.
InitSaturated ==
    /\ cfg \in SaturatedConfigs
    /\ first_valid_synced \in BOOLEAN
    /\ sync_state = IF first_valid_synced THEN "Locked" ELSE "Unsynced"
    /\ diagnostics = [discard_count |-> U32_MAX, crc_error_count |-> U32_MAX,
                      bad_line_count |-> U32_MAX, resync_count |-> U32_MAX]
    /\ ticks = 0
    /\ calls = MaxCalls - 1
    /\ src_pos \in StartPositions(cfg)
    /\ src_bad_crc = FALSE
    /\ InitCall
    /\ obs = ObsAtEntry
    /\ pkt = <<>>
    /\ ret = NoReturn
    /\ cc = CheckIdle
    /\ hist = [constructed |-> FALSE, oks |-> 0]

\* a buffer of the caller, holding whatever the caller left in it
caller_buffer(n) == [i \in 1..n |-> JunkPayload]

\* The buffers a capture is entered with: the zeroed buffers of exactly the
\* required lengths that capture_frame_from_source allocates, or buffers a
\* caller of capture_frame_into passes that are one byte short.
CallBuffers(c) ==
    LET required == required_frame_buffer_len(c)
    IN  {[via |-> "capture_frame_from_source", frame |-> Zeros(required),
              packet_buf_len |-> c.packet_size_bytes]}
        \cup (IF required > 0
              THEN {[via |-> "capture_frame_into",
                     frame |-> caller_buffer(required - 1),
                     packet_buf_len |-> c.packet_size_bytes]}
              ELSE {})
        \cup (IF c.packet_size_bytes > 0
              THEN {[via |-> "capture_frame_into",
                     frame |-> caller_buffer(required),
                     packet_buf_len |-> c.packet_size_bytes - 1]}
              ELSE {})

\* a call of capture_frame_into (by capture_frame_from_source or by a caller
\* with its own buffers) up to the retry loop
CaptureCall ==
    /\ pc = "idle"
    /\ calls < MaxCalls
    /\ \E b \in CallBuffers(cfg) :
        LET k == [Ctl EXCEPT !.frame_attempts = 0, !.resync_attempts = 0,
                             !.last_error = NoError, !.result = NoResult,
                             !.pc = "loop"]
        IN  /\ frame' = b.frame
            /\ SetCtl(IF preconditions_hold(cfg, Len(b.frame), b.packet_buf_len)
                      THEN k
                      ELSE return(k, ResultErr(Err("InvalidPacket"))))
            /\ obs' = [ObsAtEntry EXCEPT !.via = b.via,
                                         !.entry_frame = b.frame,
                                         !.entry_packet_buf_len = b.packet_buf_len]
    /\ calls' = calls + 1
    /\ UNCHANGED <<cfg, src_bad_crc, pkt, ret, cc, expected_segment, expected_packet_number, packets_seen,
                   locked, ticks, src_pos, noise_left, src_run, hist>>

\* one pass through the head of the retry loop; starts read_one_frame
AttemptStart ==
    /\ pc = "loop"
    /\ LET k == loop_head(Ctl, cfg, ticks)
           started == k.pc = "read"
       IN  /\ SetCtl(k)
           /\ ticks' = IF started THEN ticks + 1 ELSE ticks
           /\ expected_segment' = IF started THEN 1 ELSE expected_segment
           /\ expected_packet_number' = IF started THEN 0 ELSE expected_packet_number
           /\ packets_seen' = IF started THEN 0 ELSE packets_seen
           /\ locked' = IF started THEN is_locked(k.sync_state) ELSE locked
           /\ obs' = IF started
                     THEN [obs EXCEPT !.attempts = @ + 1, !.att_diag = diagnostics,
                                     !.att_reads = 0, !.att_discards = 0]
                     ELSE obs
    /\ UNCHANGED <<cfg, src_bad_crc, pkt, ret, cc, frame, calls, src_pos, noise_left, src_run, hist>>

\* one iteration of the while loop of read_one_frame
ReadPacket ==
    /\ pc = "read"
    /\ expected_segment <= cfg.segments_per_frame
    /\ \E r \in SourceReads :
        LET seen == packets_seen + 1
            o == assemble_packet(cfg, locked, expected_segment,
                                 expected_packet_number, seen, diagnostics,
                                 meta, frame, SubSeq(r.packet, 1, cfg.packet_size_bytes))
            k0 == [Ctl EXCEPT !.diagnostics = o.d, !.meta = o.m]
            k == IF ~r.ok THEN on_transport_error(Ctl, r.e)
                 ELSE IF o.status = "fail" THEN on_attempt_error(k0, o.err)
                 ELSE IF o.status = "panic" THEN return(k0, ResultPanic)
                 ELSE k0
        IN  /\ SetCtl(k)
            /\ packets_seen' = IF r.ok THEN seen ELSE packets_seen
            /\ frame' = IF r.ok THEN o.fr ELSE frame
            /\ expected_segment' = IF r.ok THEN o.es ELSE expected_segment
            /\ expected_packet_number' = IF r.ok THEN o.ep ELSE expected_packet_number
            /\ src_pos' = r.pos
            /\ noise_left' = noise_left - r.cost
            /\ src_run' = r.run
            /\ obs' = LET o1 == ObsRead(obs, r, "assemble")
                      IN  IF r.ok /\ o.status = "fail"
                          THEN [o1 EXCEPT !.att_errs = Append(@, o.err),
                                          !.backoff_reads = 0]
                          ELSE IF r.ok /\ o.wrote
                          THEN [o1 EXCEPT !.writes =
                                   Append(@, frame_line(cfg, expected_segment,
                                                        expected_packet_number))]
                          ELSE o1
    /\ UNCHANGED <<cfg, src_bad_crc, pkt, ret, cc, locked, ticks, calls, hist>>

\* read_one_frame leaves its loop: the frame is complete
FrameComplete ==
    /\ pc = "read"
    /\ ~(expected_segment <= cfg.segments_per_frame)
    /\ SetCtl(on_attempt_ok(Ctl))
    /\ hist' = [hist EXCEPT !.oks = @ + 1]
    /\ UNCHANGED <<cfg, src_bad_crc, pkt, ret, cc, frame, expected_segment,
                   expected_packet_number, packets_seen, locked, ticks, calls,
                   src_pos, noise_left, src_run, obs>>

\* one iteration of the backoff loop
BackoffRead ==
    /\ pc = "backoff"
    /\ backoff_i < cfg.backoff_packet_reads
    /\ \E r \in SourceReads :
        /\ SetCtl(IF r.ok THEN [Ctl EXCEPT !.backoff_i = @ + 1]
                  ELSE on_transport_error(Ctl, r.e))
        /\ src_pos' = r.pos
        /\ noise_left' = noise_left - r.cost
        /\ src_run' = r.run
        /\ obs' = LET o1 == ObsRead(obs, r, "backoff")
                  IN  IF r.ok THEN [o1 EXCEPT !.backoff_reads = @ + 1] ELSE o1
    /\ UNCHANGED <<cfg, src_bad_crc, pkt, ret, cc, frame, expected_segment, expected_packet_number,
                   packets_seen, locked, ticks, calls, hist>>

\* the backoff loop is over: give up or go round the retry loop
BackoffDone ==
    /\ pc = "backoff"
    /\ ~(backoff_i < cfg.backoff_packet_reads)
    /\ SetCtl(after_backoff(Ctl, cfg))
    /\ UNCHANGED <<cfg, src_bad_crc, pkt, ret, cc, frame, expected_segment,
                   expected_packet_number, packets_seen, locked, ticks, calls,
                   src_pos, noise_left, src_run, obs, hist>>

Next ==
    \/ CaptureCall
    \/ AttemptStart
    \/ ReadPacket
    \/ FrameComplete
    \/ BackoffRead
    \/ BackoffDone

Init == InitDriver \/ InitLine20 \/ InitSaturated

Spec == Init /\ [][Next]_vars

\* a call in progress takes its next step: every read_packet call returns
Progress == AttemptStart \/ ReadPacket \/ FrameComplete \/ BackoffRead \/ BackoffDone

FairSpec == Spec /\ WF_vars(Progress)

---------------------------------------------------------------------------
(* The packet functions on their own: crc.rs and the header functions of
   vospi.rs, applied to packets as the unit tests apply them *)

MaxPacketLen == 6

\* crc.rs crc_known_vector
KnownVector == <<16, 20, 0, 0, 171, 205, 16, 32, 48, 64>>

\* The packets the functions are applied to. IDs: the top nibbles 0, 1, 4,
\* 8, 0xE and 0xF over the lines 0, 1, 19, 20 and the low bits of the test
\* IDs 0xF001, 0xFAAA, 0xF123 and 0x0AAA. CRC fields: 0x0000, 0x1234 and
\* others. Payload bytes: 0x00 and 0x5A. Every prefix of such a packet, the
\* empty packet included, is an input too.
IdHighNibbles == {0, 1, 4, 8, 14, 15}
IdLow12s == {0, 1, 19, 20, 291, 2730}
CrcFieldBytes(idx) == IF idx = 2 THEN {0, 18} ELSE {0, 52, 255}
PayloadBytes == {0, 90}

RECURSIVE PayloadsOfLen(_)
PayloadsOfLen(n) ==
    IF n = 0 THEN {<<>>}
    ELSE {Append(p, b) : p \in PayloadsOfLen(n - 1), b \in PayloadBytes}

FullPackets ==
    {u16_to_be_bytes(h * 4096 + l) \o <<b2, b3>> \o p :
        h \in IdHighNibbles, l \in IdLow12s,
        b2 \in CrcFieldBytes(2), b3 \in CrcFieldBytes(3),
        p \in PayloadsOfLen(MaxPacketLen - PACKET_HEADER_BYTES)}

PacketInputs ==
    {SubSeq(p, 1, n) : p \in FullPackets, n \in 0..MaxPacketLen} \cup {KnownVector}

\* the bits a corrupted payload byte is changed by: every change of the
\* byte for the five-byte packets with top nibble 0, the single bits and two
\* patterns for the other packets
CorruptionMasks(packet) ==
    IF Len(packet) = 5 /\ packet[1] < 16 THEN 1..255
    ELSE {1, 2, 4, 8, 16, 32, 64, 128, 90, 255}

\* the variables of the capture engine, which the packet functions never touch
capture_vars ==
    <<cfg, first_valid_synced, sync_state, diagnostics, frame, pc,
      frame_attempts, resync_attempts, last_error, meta, backoff_i,
      expected_segment, expected_packet_number, packets_seen, locked, result,
      ticks, calls, src_pos, noise_left, src_run, src_bad_crc, obs, hist>>

PureInit ==
    /\ pkt \in PacketInputs
    /\ ret = NoReturn
    /\ cc = CheckIdle
    /\ cfg \in Line20Configs
    /\ first_valid_synced = FALSE
    /\ sync_state = "Unsynced"
    /\ diagnostics = FrameDiagnosticsDefault
    /\ ticks = 0
    /\ calls = 0
    /\ src_pos = 0
    /\ src_bad_crc = FALSE
    /\ InitCall
    /\ obs = ObsAtEntry
    /\ hist = [constructed |-> TRUE, oks |-> 0]

CallCrc16 ==
    /\ ret' = Return("lepton_packet_crc16_spec", pkt,
                     lepton_packet_crc16_spec(pkt), FALSE, NoHeader)
    /\ UNCHANGED <<pkt, cc, capture_vars>>

CallParseHeader ==
    /\ ret' = Return("parse_packet_header", pkt, None, FALSE,
                     parse_packet_header(pkt))
    /\ UNCHANGED <<pkt, cc, capture_vars>>

CallIsDiscard ==
    /\ ret' = Return("is_discard_packet", pkt, None, is_discard_packet(pkt),
                     NoHeader)
    /\ UNCHANGED <<pkt, cc, capture_vars>>

CallSegmentNumber ==
    /\ ret' = Return("segment_number", pkt, segment_number(pkt), FALSE,
                     NoHeader)
    /\ UNCHANGED <<pkt, cc, capture_vars>>

CallValidateCrc ==
    /\ ret' = Return("validate_packet_crc", pkt, None,
                     validate_packet_crc(pkt), NoHeader)
    /\ UNCHANGED <<pkt, cc, capture_vars>>

\* the tests' mk_packet: the CRC of the packet is stored in its CRC field
MkPacket ==
    /\ pkt \in PacketInputs
    /\ Len(pkt) >= PACKET_HEADER_BYTES
    /\ pkt' = set_crc(pkt, lepton_packet_crc16_spec(pkt).value)
    /\ ret' = Return("mk_packet", pkt', None, FALSE, NoHeader)
    /\ UNCHANGED <<cc, capture_vars>>

\* crc_masks_id_upper_nibble and crc_zeros_crc_field_bytes: the CRC of a
\* second packet that differs from the first in the upper nibble of byte 0
\* and in bytes 2 and 3
Crc16AfterChange ==
    /\ ret.fn = "lepton_packet_crc16_spec"
    /\ ret.arg = pkt
    /\ pkt \in PacketInputs
    /\ Len(pkt) >= PACKET_HEADER_BYTES
    /\ \E h \in IdHighNibbles, b2 \in CrcFieldBytes(2), b3 \in CrcFieldBytes(3) :
         pkt' = [pkt EXCEPT ![1] = h * 16 + (pkt[1] % 16), ![3] = b2, ![4] = b3]
    /\ ret' = [Return("lepton_packet_crc16_spec", pkt',
                      lepton_packet_crc16_spec(pkt'), FALSE, NoHeader)
                 EXCEPT !.second = TRUE]
    /\ UNCHANGED <<cc, capture_vars>>

\* crc_validation_detects_payload_corruption: a packet that validated has
\* one payload byte changed and is validated again
ValidateAfterCorruption ==
    /\ ret.fn = "validate_packet_crc"
    /\ ret.arg = pkt
    /\ ret.flag
    /\ \E i \in (PACKET_HEADER_BYTES + 1)..Len(pkt), m \in CorruptionMasks(pkt) :
         pkt' = [pkt EXCEPT ![i] = BitXor(pkt[i], m)]
    /\ ret' = [Return("validate_packet_crc", pkt', None,
                      validate_packet_crc(pkt'), NoHeader)
                 EXCEPT !.second = TRUE]
    /\ UNCHANGED <<cc, capture_vars>>

PureNext ==
    \/ CallCrc16
    \/ CallParseHeader
    \/ CallIsDiscard
    \/ CallSegmentNumber
    \/ CallValidateCrc
    \/ MkPacket
    \/ Crc16AfterChange
    \/ ValidateAfterCorruption

PureSpec == PureInit /\ [][PureNext]_vars

---------------------------------------------------------------------------
(* lepton.rs check_camera over lepton_cci.rs: the camera check, one step per
   I2C transaction and per robust capture *)

COMMAND_POLL_TIMEOUT_MS == 1000

\* the values the device answers a read of the data register with:
\* VideoOutputSource::Constant, which is the source of the first two tests
\* and differs from the source of the other three
CciData == {3}

\* the table of test patterns of check_camera
CameraTests ==
    <<[name |-> "constant_0x1234", source |-> 3, constant |-> Some(4660)],
      [name |-> "constant_0x2AAA", source |-> 3, constant |-> Some(10922)],
      [name |-> "ramp_h", source |-> 4, constant |-> None],
      [name |-> "ramp_v", source |-> 5, constant |-> None],
      [name |-> "ramp", source |-> 2, constant |-> None]>>

\* report.tests.push(CameraCheckTestResult { .. })
push_test(c, ok, readback_source) ==
    [c EXCEPT !.tests = Append(@, [name |-> CameraTests[c.test].name,
                                   ok |-> ok,
                                   readback_source |-> readback_source])]

\* entry of a generated set function (first the data register) or get
\* function (first the command)
begin_command(c, at, set) ==
    [c EXCEPT !.pc = at, !.set = set, !.step = IF set THEN "data" ELSE "length",
              !.polls = 0, !.data = 0]

no_command(c, at) ==
    [c EXCEPT !.pc = at, !.step = "", !.set = FALSE, !.polls = 0, !.data = 0]

\* the tail of check_camera: the original source is written back
restore_source(c) ==
    IF c.original_source.some THEN begin_command(c, "restore_source", TRUE)
    ELSE no_command([c EXCEPT !.restored = FALSE], "done")

\* the original constant is written back
restore_constant(c) ==
    IF c.original_constant.some THEN begin_command(c, "restore_constant", TRUE)
    ELSE restore_source([c EXCEPT !.restored = FALSE])

\* entry of run_camera_check_test for test c.test
start_test(c) ==
    IF CameraTests[c.test].constant.some
    THEN begin_command(c, "set_constant", TRUE)
    ELSE begin_command(c, "set_source", TRUE)

\* the for loop over the tests goes on
next_test(c) ==
    IF c.test < Len(CameraTests) THEN start_test([c EXCEPT !.test = @ + 1])
    ELSE restore_constant(c)

\* a CCI command has returned Ok((data, status)) or Err to check_camera
command_returned(c, ok, data) ==
    CASE c.pc = "original_source" ->
           begin_command([c EXCEPT !.original_source = IF ok THEN Some(data) ELSE None],
                         "original_constant", FALSE)
      [] c.pc = "original_constant" ->
           start_test([c EXCEPT !.original_constant = IF ok THEN Some(data) ELSE None,
                                !.test = 1])
      [] c.pc = "set_constant" ->
           IF ok THEN begin_command(c, "set_source", TRUE)
           ELSE next_test(push_test(c, FALSE, None))
      [] c.pc = "set_source" ->
           IF ok THEN begin_command(c, "readback", FALSE)
           ELSE next_test(push_test(c, FALSE, None))
      [] c.pc = "readback" ->
           IF ~ok THEN next_test(push_test(c, FALSE, None))
           ELSE IF data # CameraTests[c.test].source
           THEN next_test(push_test(c, FALSE, Some(data)))
           ELSE [no_command(c, "warmup") EXCEPT !.readback_source = data,
                                                !.warmups = 0]
      [] c.pc = "restore_constant" ->
           restore_source(IF ok THEN c ELSE [c EXCEPT !.restored = FALSE])
      [] c.pc = "restore_source" ->
           no_command(IF ok THEN c ELSE [c EXCEPT !.restored = FALSE], "done")

\* the end of the polling loop of poll_status
poll_timeout(c) == no_command(c, "panic")

\* check_camera is called: the report is created and the first command,
\* get_video_output_source, begins
CheckCamera ==
    /\ cc.pc = "idle"
    /\ cc' = begin_command(CheckIdle, "original_source", FALSE)
    /\ UNCHANGED <<pkt, ret, capture_vars>>

\* write_register: the data register of a set function, then the two
\* writes of write_command; an I2C error ends the command
WriteRegister ==
    /\ cc.step \in {"data", "length", "id"}
    /\ \E ok \in BOOLEAN :
         cc' = IF ok
               THEN [cc EXCEPT !.step = CASE cc.step = "data" -> "length"
                                          [] cc.step = "length" -> "id"
                                          [] cc.step = "id" -> "poll"]
               ELSE command_returned(cc, FALSE, 0)
    /\ UNCHANGED <<pkt, ret, capture_vars>>

\* one pass of the loop of poll_status: get_interface_status, then the
\* return, the delay, or the end of the loop
PollStatus ==
    /\ cc.step = "poll"
    /\ \E answer \in {"error", "busy", "finished"} :
         cc' = CASE answer = "error" -> command_returned(cc, FALSE, 0)
                 [] answer = "finished" ->
                      [cc EXCEPT !.step = IF cc.set THEN "status" ELSE "read",
                                 !.polls = 0]
                 [] answer = "busy" ->
                      IF cc.polls + 1 = COMMAND_POLL_TIMEOUT_MS
                      THEN poll_timeout(cc)
                      ELSE [cc EXCEPT !.polls = @ + 1]
    /\ UNCHANGED <<pkt, ret, capture_vars>>

\* read_register(CCIDataReg0) of a get function
ReadRegister ==
    /\ cc.step = "read"
    /\ \E ok \in BOOLEAN, data \in CciData :
         cc' = IF ok THEN [cc EXCEPT !.step = "status", !.data = data]
               ELSE command_returned(cc, FALSE, 0)
    /\ UNCHANGED <<pkt, ret, capture_vars>>

\* get_status_code, the last transaction of a command
GetStatusCode ==
    /\ cc.step = "status"
    /\ \E ok \in BOOLEAN :
         cc' = IF ok THEN command_returned(cc, TRUE, cc.data)
               ELSE command_returned(cc, FALSE, 0)
    /\ UNCHANGED <<pkt, ret, capture_vars>>

\* read_frame_robust in run_camera_check_test: twice with the result
\* dropped, then the capture whose frame validate_pattern looks at
ReadFrameRobust ==
    /\ cc.pc \in {"warmup", "capture"}
    /\ \E captured \in BOOLEAN, pattern_ok \in BOOLEAN :
         cc' = IF cc.pc = "warmup"
               THEN IF cc.warmups + 1 = 2
                    THEN [cc EXCEPT !.pc = "capture", !.warmups = @ + 1]
                    ELSE [cc EXCEPT !.warmups = @ + 1]
               ELSE next_test(push_test(cc, captured /\ pattern_ok,
                                        Some(cc.readback_source)))
    /\ UNCHANGED <<pkt, ret, capture_vars>>

CheckInit ==
    /\ cc = CheckIdle
    /\ pkt = <<>>
    /\ ret = NoReturn
    /\ cfg \in Line20Configs
    /\ first_valid_synced = FALSE
    /\ sync_state = "Unsynced"
    /\ diagnostics = FrameDiagnosticsDefault
    /\ ticks = 0
    /\ calls = 0
    /\ src_pos = 0
    /\ src_bad_crc = FALSE
    /\ InitCall
    /\ obs = ObsAtEntry
    /\ hist = [constructed |-> TRUE, oks |-> 0]

CheckNext ==
    \/ CheckCamera
    \/ WriteRegister
    \/ PollStatus
    \/ ReadRegister
    \/ GetStatusCode
    \/ ReadFrameRobust

CheckSpec == CheckInit /\ [][CheckNext]_vars

---------------------------------------------------------------------------
(* Properties *)

\* a capture call has returned
Returned == pc = "idle" /\ result.tag # "none"

\* the call was entered at the first packet of a frame and its reads 1..n
\* delivered the packets of the stream, one after the other
CleanReads(n) ==
    /\ obs.entry_pos = 0
    /\ \A i \in 1..Len(obs.noise) : obs.noise[i].at > n
    /\ obs.spi.at = 0 \/ obs.spi.at > n

\* slot (s-1)*L+l of the pixel buffer holds the payload of the packet of
\* segment s, line l of the stream's frame
HoldsTheFrame ==
    /\ Len(frame) = FramePackets(cfg)
    /\ \A s \in 1..cfg.segments_per_frame :
          \A l \in 0..(cfg.lines_per_segment - 1) :
              frame[(s - 1) * cfg.lines_per_segment + l + 1]
                  = StreamPacket(cfg, (s - 1) * cfg.lines_per_segment + l)[5]

\* the source delivers exactly the packets of one frame, in order and
\* whatever their CRC fields, to a call of capture_frame_from_source entered
\* with the latch false
OneFrameInOrder ==
    /\ Returned
    /\ obs.via = "capture_frame_from_source"
    /\ ~obs.entry_latch
    /\ cfg.packet_size_bytes = 5
    /\ CleanReads(FramePackets(cfg))

\* the source delivers exactly one well-formed frame to a call entered with
\* the latch false
OneFrameDelivered == OneFrameInOrder /\ ~src_bad_crc

FirstAttemptSucceeds ==
    /\ result.tag = "Ok"
    /\ obs.attempts = 1
    /\ obs.reads = FramePackets(cfg)
    /\ result.meta.resync_count = 0
    /\ HoldsTheFrame

\* C1 as stated: with the latch false and a source that delivers exactly
\* the S x L well-formed packets of one frame in order, the call returns Ok on
\* its first attempt after reading exactly those packets, meta.resync_count
\* is 0 and every slot (s-1)*L+l holds the payload of its packet.
C1_AsStated == OneFrameDelivered => FirstAttemptSucceeds

\* C1, amended: the same, provided lines_per_segment >= 1 and
\* timeout_packets >= S x L.
C1_OneFrame ==
    (/\ OneFrameDelivered
     /\ cfg.lines_per_segment >= 1
     /\ cfg.timeout_packets >= FramePackets(cfg))
    => FirstAttemptSucceeds

\* a frame of two segments of 21 lines, each with its line 20, was captured
\* by the first attempt
C1_Witness ==
    /\ OneFrameDelivered
    /\ cfg.lines_per_segment > SEGMENT_LINE
    /\ cfg.segments_per_frame = 2
    /\ FirstAttemptSucceeds

\* the latest attempt of the call has failed with an error other than a
\* transport error
AttemptFailed ==
    /\ obs.attempts >= 1
    /\ Len(obs.att_errs) = obs.attempts

LastFailure == obs.att_errs[Len(obs.att_errs)]

\* the latest attempt started Locked and failed with CrcMismatch,
\* LineOutOfOrder or SegmentOutOfOrder
LockedFatalFailure ==
    /\ AttemptFailed
    /\ locked
    /\ LastFailure.kind \in {"CrcMismatch", "LineOutOfOrder", "SegmentOutOfOrder"}

\* C2: an attempt that starts Locked and fails with CrcMismatch,
\* LineOutOfOrder or SegmentOutOfOrder ends the call with that same error,
\* whatever max_frame_retries and max_resync_attempts are: no backoff packet
\* is read, no further attempt is started, the cumulative resync_count has
\* grown by exactly 1 and sync_state is Unsynced.
C2_ImmediateFatal ==
    LockedFatalFailure =>
        /\ pc = "idle"
        /\ result = ResultErr(LastFailure)
        /\ obs.backoff_reads = 0
        /\ obs.last.phase = "assemble"
        /\ diagnostics.resync_count = obs.att_diag.resync_count + 1
        /\ sync_state = "Unsynced"

\* a Locked attempt failed on a wrong segment number although a retry and
\* two resyncs were left
C2_Witness ==
    /\ LockedFatalFailure
    /\ LastFailure.kind = "SegmentOutOfOrder"
    /\ cfg.max_frame_retries >= 1
    /\ cfg.max_resync_attempts >= 1
    /\ Returned

\* C3: a call entered with the latch false never returns CrcMismatch,
\* LineOutOfOrder or SegmentOutOfOrder, and whenever a call returns one of
\* the three the attempt that failed had started Locked.
C3_SeekingAbsorbs ==
    (Returned /\ result.tag = "Err"
        /\ result.err.kind \in {"CrcMismatch", "LineOutOfOrder", "SegmentOutOfOrder"})
    => (obs.entry_latch /\ locked /\ AttemptFailed /\ LastFailure = result.err)

\* a call entered with the latch false met a wrong CRC, then exhausted its
\* attempts and returned an error
C3_Witness ==
    /\ Returned
    /\ ~obs.entry_latch
    /\ diagnostics.crc_error_count > obs.entry_diag.crc_error_count
    /\ obs.attempts >= 2
    /\ result.tag = "Err"
    /\ result.err.kind # "Spi"

\* the call was entered at the first packet of a frame with the latch false;
\* its first read delivered one arbitrary packet that is not a discard packet,
\* put before the frame, and its reads 2..S x L + 1 delivered the frame;
\* the timeout leaves room for the S x L + 1 packets
GarbageThenFrame ==
    /\ Returned
    /\ obs.via = "capture_frame_from_source"
    /\ ~obs.entry_latch
    /\ ~src_bad_crc
    /\ cfg.packet_size_bytes = 5
    /\ cfg.lines_per_segment >= 1
    /\ cfg.timeout_packets >= FramePackets(cfg) + 1
    /\ obs.entry_pos = 0
    /\ Len(obs.noise) >= 1
    /\ obs.noise[1] = [at |-> 1, discard |-> FALSE, inserted |-> TRUE]
    /\ \A i \in 2..Len(obs.noise) : obs.noise[i].at > FramePackets(cfg) + 1
    /\ obs.spi.at = 0 \/ obs.spi.at > FramePackets(cfg) + 1

\* C4: with the latch false, one arbitrary garbage packet that is not a
\* discard packet followed by exactly one well-formed frame makes the call
\* return Ok with meta.valid = true and the pixel buffer holding the frame's
\* payloads in (segment, line) order.
C4_GarbageAbsorbed ==
    GarbageThenFrame => (result.tag = "Ok" /\ result.meta.valid /\ HoldsTheFrame)

\* the latest read_packet call was made by the attempt under way (or just
\* failed) and delivered a packet
ReadInAttempt ==
    /\ obs.last.phase = "assemble"
    /\ obs.last.attempt = obs.attempts
    /\ obs.last.packet # <<>>

\* a Locked attempt has read a packet that is not a discard packet, has a
\* valid CRC and a line number other than the line cursor
LockedLineJump ==
    /\ ReadInAttempt
    /\ locked
    /\ ~is_discard_packet(obs.last.packet)
    /\ validate_packet_crc(obs.last.packet)
    /\ line_number(obs.last.packet).value # obs.last.line

FailsWithLineOutOfOrder ==
    /\ AttemptFailed
    /\ LastFailure = CaptureError("LineOutOfOrder", "", obs.last.line,
                                  line_number(obs.last.packet).value)
    /\ diagnostics.bad_line_count = obs.att_diag.bad_line_count + 1
    /\ meta.bad_line_count = 1

\* C5 as stated: in a Locked attempt the first CRC-valid packet, not a
\* discard packet, whose line number differs from the line cursor makes the
\* attempt fail with LineOutOfOrder{expected = cursor, observed = line number}
\* and adds exactly 1 to the cumulative and to the per-frame bad_line_count.
C5_AsStated == LockedLineJump => FailsWithLineOutOfOrder

\* C5, amended: the same, unless the packet is packet number
\* timeout_packets + 1 of the attempt (the attempt then fails with Timeout).
C5_LineJump ==
    (LockedLineJump /\ obs.last.seen <= cfg.timeout_packets)
    => FailsWithLineOutOfOrder

\* a Locked attempt that had accepted a line met a wrong line number and the
\* call returned
C5_Witness ==
    /\ LockedLineJump
    /\ obs.last.line >= 1
    /\ obs.last.seen <= cfg.timeout_packets
    /\ FailsWithLineOutOfOrder
    /\ Returned

\* the latest packet passed the checks that precede the segment check of a
\* Locked attempt: it arrived within the packet count, is not a discard
\* packet, passed the CRC check and carries the expected line number, 20
AcceptedAsLine20 ==
    /\ ReadInAttempt
    /\ locked
    /\ obs.last.seen <= cfg.timeout_packets
    /\ ~is_discard_packet(obs.last.packet)
    /\ ~cfg.enable_crc \/ validate_packet_crc(obs.last.packet)
    /\ line_number(obs.last.packet).value = SEGMENT_LINE
    /\ obs.last.line = SEGMENT_LINE

\* bits 12..14 of the ID of the latest packet
SegmentBits == (u16_from_be_bytes(obs.last.packet[1], obs.last.packet[2]) \div 4096) % 8

\* what the read of a wrong segment number on line 20 does
WrongSegmentRead ==
    /\ pc = "read"
    /\ obs'.reads = obs.reads + 1
    /\ AcceptedAsLine20'
    /\ SegmentBits' \in 1..cfg.segments_per_frame
    /\ SegmentBits' # expected_segment

\* C6: in a Locked attempt, when the packet accepted as the expected line 20
\* carries a segment number within 1..segments_per_frame other than the
\* segment cursor, the attempt fails with SegmentOutOfOrder{expected = segment
\* cursor, observed = decoded segment} and the pixel buffer is left as it was.
C6_WrongSegment ==
    [][WrongSegmentRead =>
        /\ AttemptFailed'
        /\ LastFailure' = CaptureError("SegmentOutOfOrder", "",
                                       expected_segment, SegmentBits')
        /\ frame' = frame]_vars

\* line 20 of the second segment arrived with segment number 1 and the call
\* returned SegmentOutOfOrder{expected 2, observed 1}
C6_Witness ==
    /\ AcceptedAsLine20
    /\ obs.last.segment = 2
    /\ SegmentBits = 1
    /\ Returned
    /\ result.err = CaptureError("SegmentOutOfOrder", "", 2, 1)

\* every attempt of the returned call failed with Timeout, DiscardPacketFlood
\* or InvalidPacket, more than max_frame_retries and at most
\* max_resync_attempts of them
RetriesExhausted ==
    /\ Returned
    /\ AttemptFailed
    /\ \A i \in 1..Len(obs.att_errs) :
          obs.att_errs[i].kind \in {"Timeout", "DiscardPacketFlood", "InvalidPacket"}
    /\ Len(obs.att_errs) > cfg.max_frame_retries
    /\ Len(obs.att_errs) <= cfg.max_resync_attempts

\* C7 as stated: when every attempt fails with a retriable error and the
\* failed attempts exceed max_frame_retries but not max_resync_attempts, the
\* call returns RetryLimitExceeded.
C7_AsStated == RetriesExhausted => result = ResultErr(Err("RetryLimitExceeded"))

\* C7, amended: the call then returns the error of its last failed attempt,
\* which is not RetryLimitExceeded, unless a backoff read fails.
C7_LastError ==
    (RetriesExhausted /\ obs.spi.at = 0)
    => (result = ResultErr(LastFailure) /\ result.err.kind # "RetryLimitExceeded")

\* two attempts failed, the second one with a discard flood, and the retries
\* were exhausted
C7_Witness ==
    /\ RetriesExhausted
    /\ obs.spi.at = 0
    /\ Len(obs.att_errs) = 2
    /\ LastFailure.kind = "DiscardPacketFlood"

\* more than max_resync_attempts attempts of the returned call failed
ResyncsExceeded == Returned /\ Len(obs.att_errs) > cfg.max_resync_attempts

ReturnsSyncLost == result.tag = "Err" /\ result.err.kind = "SyncLost"

\* C8 as stated: when the failed attempts of a call exceed
\* max_resync_attempts the call returns SyncLost with sync_state Unsynced, and
\* SyncLost is returned by no call with at most max_resync_attempts failed
\* attempts.
C8_AsStated ==
    /\ ResyncsExceeded => (ReturnsSyncLost /\ sync_state = "Unsynced")
    /\ (Returned /\ ReturnsSyncLost) => Len(obs.att_errs) > cfg.max_resync_attempts

\* C8, amended: the same, unless the last failure is a Locked CrcMismatch,
\* LineOutOfOrder or SegmentOutOfOrder (returned as it is) or a backoff read
\* fails (Spi is returned).
C8_SyncLost ==
    /\ (ResyncsExceeded /\ ~LockedFatalFailure /\ obs.spi.at = 0)
       => (ReturnsSyncLost /\ sync_state = "Unsynced")
    /\ (Returned /\ ReturnsSyncLost) => Len(obs.att_errs) > cfg.max_resync_attempts

\* a call returned SyncLost after its second failed attempt
C8_Witness ==
    /\ ResyncsExceeded
    /\ ReturnsSyncLost
    /\ cfg.max_resync_attempts = 1
    /\ Len(obs.att_errs) = 2

\* the budgets of a call
WithinBudgets ==
    /\ obs.attempts <= cfg.max_frame_retries + 1
    /\ packets_seen <= cfg.timeout_packets + 1
    /\ obs.backoff_reads <= cfg.backoff_packet_reads
    /\ obs.reads <= (cfg.max_frame_retries + 1)
                    * (cfg.timeout_packets + 1 + cfg.backoff_packet_reads)

\* C9: every call returns if every read_packet call does, whatever the
\* packets: it starts at most max_frame_retries + 1 attempts, an attempt reads
\* at most timeout_packets + 1 packets and at most backoff_packet_reads
\* packets are read after a failed attempt.
C9_Terminates == []WithinBudgets /\ (pc # "idle" ~> pc = "idle")

\* a call used up its attempts, the last of which failed on packet
\* timeout_packets + 1, and drained its backoff packets
C9_Witness ==
    /\ Returned
    /\ obs.attempts = cfg.max_frame_retries + 1
    /\ obs.attempts >= 2
    /\ packets_seen = cfg.timeout_packets + 1
    /\ obs.backoff_reads = cfg.backoff_packet_reads
    /\ cfg.backoff_packet_reads >= 1

\* C10: a read_packet failure during the assembly of a frame ends the call
\* at once with Spi carrying that error: the attempt is not counted as failed
\* and not retried, no packet is read after it and the cumulative
\* resync_count is not incremented.
C10_TransportError ==
    obs.spi.phase = "assemble" =>
        /\ pc = "idle"
        /\ result = ResultErr(Spi(obs.spi.e))
        /\ obs.reads = obs.spi.at
        /\ obs.last.phase = "assemble"
        /\ obs.last.packet = <<>>
        /\ Len(obs.att_errs) = obs.attempts - 1
        /\ diagnostics.resync_count = obs.att_diag.resync_count

\* the second attempt of a call was ended by a transport error after it had
\* read packets
C10_Witness ==
    /\ obs.spi.phase = "assemble"
    /\ obs.attempts = 2
    /\ obs.spi.e = "e2"
    /\ packets_seen >= 1
    /\ Returned

---------------------------------------------------------------------------
(* The sync state and the latch over a sequence of calls *)

\* a capture call has returned an error
FailedCall == Returned /\ result.tag = "Err"

\* the call was refused by the preconditions of capture_frame_into
Rejected ==
    /\ Returned
    /\ ~preconditions_hold(cfg, Len(obs.entry_frame), obs.entry_packet_buf_len)

\* the call returned the transport error of a read made by read_one_frame
TransportErrorWhileAssembling ==
    FailedCall /\ result.err.kind = "Spi" /\ obs.spi.phase = "assemble"

\* the driver is as Lepton::new built it: no capture call was made yet
JustConstructed == hist.constructed /\ calls = 0

\* C11 as stated: the sync state is Unsynced after construction, and
\* whenever a capture call returns an error of any kind the sync state is
\* Unsynced when the call returns.
C11_AsStated ==
    /\ JustConstructed => sync_state = "Unsynced"
    /\ FailedCall => sync_state = "Unsynced"

\* C11, amended: the sync state is Unsynced after construction and when a
\* call returns the error of a failed attempt, SyncLost or a transport error
\* of a backoff read; a call that returns a transport error met while
\* assembling leaves the state of the attempt (Locked with the latch set,
\* Seeking without), and a call refused by the preconditions leaves the sync
\* state as it found it.
C11_Unsynced ==
    /\ JustConstructed => sync_state = "Unsynced"
    /\ (FailedCall /\ ~Rejected /\ ~TransportErrorWhileAssembling)
           => sync_state = "Unsynced"
    /\ TransportErrorWhileAssembling
           => sync_state = IF obs.entry_latch THEN "Locked" ELSE "Seeking"
    /\ Rejected => sync_state = obs.entry_state

\* a call entered Locked returned the CRC failure of its attempt and left
\* the state Unsynced
C11_Witness ==
    /\ FailedCall
    /\ obs.entry_state = "Locked"
    /\ result.err.kind = "CrcMismatch"
    /\ sync_state = "Unsynced"

\* C12: on a driver built by Lepton::new, first_valid_synced is true if and
\* only if a capture call has returned Ok: it is false after construction,
\* a call that returns Ok leaves it true, and a call that returns an error
\* leaves it as it was when the call was entered.
C12_Latch ==
    /\ JustConstructed => ~first_valid_synced
    /\ hist.constructed => (first_valid_synced <=> hist.oks > 0)
    /\ (Returned /\ result.tag = "Ok") => first_valid_synced
    /\ FailedCall => first_valid_synced = obs.entry_latch

\* the first call on a new driver returned Ok, the second call failed in an
\* attempt, and the latch is still set
C12_Witness ==
    /\ hist.constructed
    /\ hist.oks = 1
    /\ calls = 2
    /\ FailedCall
    /\ obs.attempts >= 1
    /\ first_valid_synced

---------------------------------------------------------------------------
(* The cumulative counters *)

\* C13: during and after every capture call, each cumulative counter
\* discard_count, crc_error_count, bad_line_count and resync_count is greater
\* than or equal to the value it had when the call was entered.
C13_Monotonic ==
    /\ u32_le(obs.entry_diag.discard_count, diagnostics.discard_count)
    /\ u32_le(obs.entry_diag.crc_error_count, diagnostics.crc_error_count)
    /\ u32_le(obs.entry_diag.bad_line_count, diagnostics.bad_line_count)
    /\ u32_le(obs.entry_diag.resync_count, diagnostics.resync_count)

---------------------------------------------------------------------------
(* The returned frame *)

\* C14: every capture call that returns Ok returns meta.valid = true, leaves
\* sync_state = Locked and first_valid_synced = true, and the pixel buffer
\* capture_frame_from_source returns has exactly
\* (packet_size_bytes - 4) x lines_per_segment x segments_per_frame bytes.
C14_OkFrame ==
    (Returned /\ result.tag = "Ok")
    => /\ result.meta.valid
       /\ sync_state = "Locked"
       /\ first_valid_synced
       /\ obs.via = "capture_frame_from_source"
            => Len(frame) = (cfg.packet_size_bytes - 4)
                            * cfg.lines_per_segment * cfg.segments_per_frame

\* a call of capture_frame_from_source returned Ok from its second attempt
C14_Witness ==
    /\ Returned
    /\ result.tag = "Ok"
    /\ obs.via = "capture_frame_from_source"
    /\ obs.attempts = 2
    /\ Len(frame) = FramePackets(cfg)

\* the line slots 0 .. S x L - 1 in increasing order
SlotsInOrder == [i \in 1..FramePackets(cfg) |-> i - 1]

\* the last n elements of a sequence
LastOf(q, n) == SubSeq(q, Len(q) - n + 1, Len(q))

\* C15 as stated: when a capture call returns a frame, every line slot of
\* the pixel buffer has been written exactly once during that call, in
\* strictly increasing (segment, line) order.
C15_AsStated ==
    (Returned /\ result.tag = "Ok") => obs.writes = SlotsInOrder

\* C15, amended: when a capture call returns a frame, the last S x L writes of
\* the call wrote the line slots 0 .. S x L - 1, each once and in increasing
\* order; a call whose only attempt ran Locked made no other write.
C15_WrittenInOrder ==
    (Returned /\ result.tag = "Ok")
    => /\ Len(obs.writes) >= FramePackets(cfg)
       /\ LastOf(obs.writes, FramePackets(cfg)) = SlotsInOrder
       /\ (obs.entry_latch /\ obs.attempts = 1) => obs.writes = SlotsInOrder

\* a Seeking attempt wrote line slot 0, reset its cursors on a packet with a
\* wrong CRC, and went on to capture a frame
C15_Witness ==
    /\ Returned
    /\ result.tag = "Ok"
    /\ obs.attempts = 1
    /\ ~obs.entry_latch
    /\ result.meta.crc_errors = 1
    /\ Len(obs.writes) > FramePackets(cfg)

---------------------------------------------------------------------------
(* The per-attempt limits *)

\* the current attempt has failed with an error of the given kind
AttemptFailedWith(kind) == AttemptFailed /\ LastFailure.kind = kind

\* C16: an attempt fails with Timeout exactly when it reads its packet
\* number timeout_packets + 1, every packet it reads counting; it never reads
\* more, an attempt that completes the frame has read at most
\* timeout_packets packets, and the count restarts at 0 for each attempt
\* (packets_seen is the number of packets the current attempt has read).
C16_Timeout ==
    obs.attempts >= 1
    => /\ packets_seen = obs.att_reads
       /\ obs.att_reads <= cfg.timeout_packets + 1
       /\ AttemptFailedWith("Timeout") <=> obs.att_reads = cfg.timeout_packets + 1
       /\ (Returned /\ result.tag = "Ok") => obs.att_reads <= cfg.timeout_packets

\* the second attempt of a call timed out on its packet timeout_packets + 1
\* after skipping a discard packet
C16_Witness ==
    /\ obs.attempts = 2
    /\ AttemptFailedWith("Timeout")
    /\ obs.att_reads = cfg.timeout_packets + 1
    /\ obs.att_discards >= 1

\* C17: an attempt skips up to max_discard_packets discard packets and fails
\* with DiscardPacketFlood exactly when it reads its discard packet number
\* max_discard_packets + 1 within its first timeout_packets packets; the
\* per-attempt count meta.discard_packets restarts at 0 with every attempt
\* (it is the number of discard packets the attempt has skipped) while the
\* cumulative discard_count goes on from the value it had when the attempt
\* started.
C17_DiscardFlood ==
    obs.attempts >= 1
    => /\ obs.att_discards <= cfg.max_discard_packets + 1
       /\ AttemptFailedWith("DiscardPacketFlood")
            <=> (/\ obs.att_discards = cfg.max_discard_packets + 1
                 /\ obs.att_reads <= cfg.timeout_packets)
       /\ ~AttemptFailedWith("Timeout")
            => meta.discard_packets = obs.att_discards
       /\ diagnostics.discard_count
            = obs.att_diag.discard_count + meta.discard_packets

\* the second attempt of a call failed on its discard packet number
\* max_discard_packets + 1, as the first attempt had: the per-attempt count
\* is max_discard_packets + 1, the cumulative count has grown by twice that
C17_Witness ==
    /\ obs.attempts = 2
    /\ AttemptFailedWith("DiscardPacketFlood")
    /\ cfg.max_discard_packets >= 1
    /\ meta.discard_packets = cfg.max_discard_packets + 1
    /\ diagnostics.discard_count
         = obs.entry_diag.discard_count + 2 * (cfg.max_discard_packets + 1)

---------------------------------------------------------------------------
(* Line 20 and the CRC switch *)

\* the latest packet of the attempt, Seeking or Locked, was accepted as the
\* expected line 20: it came within the packet budget, is not a discard
\* packet, passed the CRC check if there is one, and both its line number and
\* the line cursor are 20
Line20Accepted ==
    /\ ReadInAttempt
    /\ obs.last.seen <= cfg.timeout_packets
    /\ ~is_discard_packet(obs.last.packet)
    /\ ~cfg.enable_crc \/ validate_packet_crc(obs.last.packet)
    /\ line_number(obs.last.packet).value = SEGMENT_LINE
    /\ obs.last.line = SEGMENT_LINE

\* C18: whenever the packet accepted as the expected line 20 decodes to
\* segment 0 or to a segment greater than segments_per_frame, the attempt
\* fails with InvalidPacket, in Seeking as well as in Locked.
C18_InvalidSegment ==
    (Line20Accepted /\ (SegmentBits = 0 \/ SegmentBits > cfg.segments_per_frame))
    => AttemptFailedWith("InvalidPacket")

\* a Seeking attempt that had accepted lines 0..19 met a line 20 with segment
\* number 0 and failed with InvalidPacket
C18_Witness ==
    /\ Line20Accepted
    /\ ~locked
    /\ SegmentBits = 0
    /\ AttemptFailedWith("InvalidPacket")

\* the packet with other CRC fields: 0, 0xFFFF, the right one and a wrong one
CrcVariants(packet) ==
    {set_crc(packet, x) :
        x \in {0, U16 - 1, lepton_packet_crc16_spec(packet).value,
               (lepton_packet_crc16_spec(packet).value + 1) % U16}}

\* with enable_crc = false: no CrcMismatch, the CRC counters untouched, a
\* frame delivered in order captured whatever its CRC fields where a
\* well-formed frame is (C1), the discard packets of an attempt counted
CrcDisabledState ==
    ~cfg.enable_crc
    => /\ \A i \in 1..Len(obs.att_errs) : obs.att_errs[i].kind # "CrcMismatch"
       /\ result.err.kind # "CrcMismatch"
       /\ diagnostics.crc_error_count = obs.entry_diag.crc_error_count
       /\ meta.crc_errors = 0
       /\ (/\ OneFrameInOrder
           /\ cfg.lines_per_segment >= 1
           /\ cfg.timeout_packets >= FramePackets(cfg))
            => FirstAttemptSucceeds
       /\ (obs.attempts >= 1 /\ ~AttemptFailedWith("Timeout"))
            => /\ meta.discard_packets = obs.att_discards
               /\ diagnostics.discard_count
                    = obs.att_diag.discard_count + obs.att_discards

\* with enable_crc = false, what an attempt does with the packet it reads is
\* what it would do with the same packet under any other CRC field
CrcDisabledRead ==
    (/\ ~cfg.enable_crc
     /\ pc = "read"
     /\ obs'.reads = obs.reads + 1
     /\ obs'.last.packet # <<>>)
    => \A q \in CrcVariants(obs'.last.packet) :
          LET o == assemble_packet(cfg, locked, expected_segment,
                                   expected_packet_number, packets_seen + 1,
                                   diagnostics, meta, frame, q)
          IN  /\ o.status = IF AttemptFailed' THEN "fail" ELSE "continue"
              /\ AttemptFailed' => o.err = LastFailure'
              /\ o.d = [diagnostics' EXCEPT !.resync_count = diagnostics.resync_count]
              /\ o.es = expected_segment'
              /\ o.ep = expected_packet_number'
              /\ o.fr = frame'

\* C19: with enable_crc = false no packet's CRC field is examined: no
\* attempt and no call fails with CrcMismatch, crc_error_count and
\* meta.crc_errors stay as they were, every packet is treated as it would be
\* under any other CRC field, so that a frame delivered in order is captured
\* whatever the CRC fields of its packets, and discard packets are skipped
\* and counted.
C19_CrcDisabled == []CrcDisabledState /\ [][CrcDisabledRead]_vars

\* with enable_crc = false, a call skipped a discard packet and captured, in
\* its first attempt, a frame whose packets all carry a wrong CRC field
C19_Witness ==
    /\ ~cfg.enable_crc
    /\ src_bad_crc
    /\ Returned
    /\ result.tag = "Ok"
    /\ obs.attempts = 1
    /\ obs.att_discards = 1
    /\ result.meta.discard_packets = 1
    /\ obs.att_reads = FramePackets(cfg) + 1
    /\ HoldsTheFrame

---------------------------------------------------------------------------
(* The preconditions *)

\* the current call was entered with packet_size_bytes < 4, with a packet
\* buffer shorter than packet_size_bytes or with a frame buffer shorter than
\* required_frame_buffer_len(cfg)
EnteredWithoutPreconditions ==
    /\ obs.via # ""
    /\ \/ cfg.packet_size_bytes < 4
       \/ obs.entry_packet_buf_len < cfg.packet_size_bytes
       \/ Len(obs.entry_frame) < required_frame_buffer_len(cfg)

\* C20: a call entered with packet_size_bytes < 4, or a packet buffer shorter
\* than packet_size_bytes, or a frame buffer shorter than
\* required_frame_buffer_len(cfg) returns InvalidPacket at once: it reads no
\* packet, does not sample the tick source, and leaves sync_state,
\* first_valid_synced, the cumulative diagnostics and the frame buffer as
\* they were.
C20_Preconditions ==
    EnteredWithoutPreconditions
    => /\ Returned
       /\ result = ResultErr(Err("InvalidPacket"))
       /\ obs.reads = 0
       /\ src_pos = obs.entry_pos
       /\ ticks = obs.entry_ticks
       /\ sync_state = obs.entry_state
       /\ first_valid_synced = obs.entry_latch
       /\ diagnostics = obs.entry_diag
       /\ frame = obs.entry_frame

\* after a call that had captured a frame and counted some event, a call
\* with a frame buffer one byte short was refused: the driver is still
\* Locked, its counters and the caller's buffer are what they were
C20_Witness ==
    /\ EnteredWithoutPreconditions
    /\ cfg.packet_size_bytes = 5
    /\ obs.entry_packet_buf_len = 5
    /\ Len(frame) = required_frame_buffer_len(cfg) - 1
    /\ frame = caller_buffer(Len(frame))
    /\ hist.constructed
    /\ hist.oks = 1
    /\ sync_state = "Locked"
    /\ diagnostics # FrameDiagnosticsDefault
    /\ result = ResultErr(Err("InvalidPacket"))

---------------------------------------------------------------------------
(* The tick source *)

\* the tick source has been called once for each attempt of the current
\* call, and the FrameMeta of the current attempt, like that of a call that
\* returned Ok, carries the value sampled for the latest attempt (the tick
\* source of the model returns the number of calls made to it so far)
TicksPerAttempt ==
    obs.via # ""
    => /\ ticks = obs.entry_ticks + obs.attempts
       /\ obs.attempts >= 1
            => meta.capture_ticks = obs.entry_ticks + obs.attempts - 1
       /\ (Returned /\ result.tag = "Ok")
            => result.meta.capture_ticks = obs.entry_ticks + obs.attempts - 1

\* a step that calls the tick source calls it once, starts an attempt and
\* reads no packet
TickThenRead ==
    ticks' # ticks
    => /\ ticks' = ticks + 1
       /\ pc = "loop" /\ pc' = "read"
       /\ obs'.attempts = obs.attempts + 1
       /\ obs'.att_reads = 0
       /\ obs'.reads = obs.reads
       /\ src_pos' = src_pos

\* C21: the tick source is called exactly once per assembly attempt, before
\* the first packet read of the attempt, and the FrameMeta of a call that
\* returns Ok carries as capture_ticks the value sampled for its last
\* attempt.
C21_Ticks == []TicksPerAttempt /\ [][TickThenRead]_vars

\* the second call on a driver returned Ok from its second attempt, with
\* the tick sampled for that attempt and not the one of the first
C21_Witness ==
    /\ Returned
    /\ result.tag = "Ok"
    /\ obs.entry_ticks >= 1
    /\ obs.attempts = 2
    /\ ticks = obs.entry_ticks + 2
    /\ result.meta.capture_ticks = obs.entry_ticks + 1

---------------------------------------------------------------------------
(* The packet functions *)

\* the big-endian 16-bit ID of a packet that has a header
IdOf(p) == p[1] * 256 + p[2]

\* C22: segment_number returns Some(bits 12..14 of the packet ID) exactly
\* when the packet has a header, its line number is 20 and it is not a
\* discard packet; for every other packet, the packets shorter than 4 bytes
\* included, it returns None.
C22_SegmentDecode ==
    ret.fn = "segment_number"
    => IF /\ Len(ret.arg) >= 4
          /\ IdOf(ret.arg) % 4096 = 20
          /\ IdOf(ret.arg) \div 4096 # 15
       THEN ret.opt = Some((IdOf(ret.arg) \div 4096) % 8)
       ELSE ret.opt = None

\* C23: is_discard_packet(p) is true exactly when p has at least 4 bytes and
\* the top nibble of its big-endian 16-bit ID is 0xF.
C23_Discard ==
    ret.fn = "is_discard_packet"
    => (ret.flag <=> (Len(ret.arg) >= 4 /\ IdOf(ret.arg) \div 4096 = 15))

\* the IDs 0xF001, 0xFAAA and 0xF123 are recognised, 0x0AAA is not
C23_TestIds ==
    /\ ret.fn = "is_discard_packet"
    /\ Len(ret.arg) >= 4
    /\ \/ IdOf(ret.arg) \in {61441, 64170, 61731} /\ ret.flag
       \/ IdOf(ret.arg) = 2730 /\ ~ret.flag

C23_Witness ==
    /\ C23_TestIds
    /\ IdOf(ret.arg) = 64170
    /\ Len(ret.arg) = MaxPacketLen

\* two packets of one length that differ at most in the upper nibble of
\* byte 0 and in bytes 2 and 3
SameButIgnored(p, q) ==
    /\ Len(p) = Len(q)
    /\ \A i \in 1..Len(p) :
         \/ p[i] = q[i]
         \/ i = 1 /\ p[i] % 16 = q[i] % 16
         \/ i \in {3, 4}

\* C24: for packets of length >= 4, lepton_packet_crc16_spec returns the
\* same value for two packets that differ only in the upper nibble of byte 0
\* and in bytes 2 and 3.
C24_Invariance ==
    [][(/\ ret.fn = "lepton_packet_crc16_spec"
        /\ ret'.fn = "lepton_packet_crc16_spec"
        /\ Len(ret.arg) >= 4
        /\ SameButIgnored(ret.arg, ret'.arg))
       => ret'.opt = ret.opt]_vars

\* the second of two packets that differ in all the ignored bits, its CRC
\* taken after the first one's
C24_Witness ==
    /\ ret.fn = "lepton_packet_crc16_spec"
    /\ ret.second
    /\ ret.arg = pkt
    /\ ret.opt.some
    /\ ret.opt.value # 0
    /\ Len(pkt) = MaxPacketLen
    /\ pkt[1] \div 16 = 14
    /\ pkt[3] = 18
    /\ pkt[4] = 52

\* C25: for every packet shorter than 4 bytes lepton_packet_crc16_spec
\* returns None, parse_packet_header returns None and validate_packet_crc
\* returns false.
C25_Short ==
    Len(ret.arg) < 4
    => /\ ret.fn = "lepton_packet_crc16_spec" => ret.opt = None
       /\ ret.fn = "parse_packet_header" => ~ret.header.some
       /\ ret.fn = "validate_packet_crc" => ~ret.flag

C25_Witness ==
    /\ Len(ret.arg) = 3
    /\ ret.fn = "validate_packet_crc"
    /\ ~ret.flag
    /\ ret.arg = pkt

\* CRC-16/CCITT by its definition: the message, taken as a polynomial over
\* GF(2) with the first bit of the first byte as the highest coefficient, is
\* multiplied by x^16 and divided by x^16 + x^12 + x^5 + 1 (0x1021 with its
\* leading term); the CRC is the remainder (initial value 0, no final XOR).
\* A polynomial is held as the set of the exponents of its terms.
MessagePoly(bytes) ==
    {8 * (Len(bytes) - q[1]) + q[2] + 16 :
        q \in {r \in (1..Len(bytes)) \X (0..7) :
                 (bytes[r[1]] \div (2 ^ r[2])) % 2 = 1}}

Degree(poly) == CHOOSE e \in poly : \A f \in poly : f <= e

RECURSIVE Remainder(_)
Remainder(poly) ==
    IF poly = {} \/ Degree(poly) < 16 THEN poly
    ELSE LET e == Degree(poly)
             g == {e, e - 4, e - 11, e - 16}
         IN  Remainder((poly \ g) \cup (g \ poly))

RECURSIVE PolyValue(_)
PolyValue(poly) ==
    IF poly = {} THEN 0
    ELSE LET e == Degree(poly) IN 2 ^ e + PolyValue(poly \ {e})

\* the packet with byte 0's upper nibble and bytes 2 and 3 replaced by zero
Masked(p) ==
    [i \in 1..Len(p) |-> IF i = 1 THEN p[i] % 16
                         ELSE IF i \in {3, 4} THEN 0 ELSE p[i]]

CcittOfMasked(p) == PolyValue(Remainder(MessagePoly(Masked(p))))

\* C26: lepton_packet_crc16_spec equals CRC-16/CCITT (polynomial 0x1021,
\* initial value 0, MSB-first, no final XOR) over the whole packet with byte
\* 0's upper nibble and bytes 2 and 3 replaced by zero; it maps
\* [0x10,0x14,0x00,0x00,0xAB,0xCD,0x10,0x20,0x30,0x40] to 0x2F69.
C26_Ccitt ==
    (ret.fn = "lepton_packet_crc16_spec" /\ Len(ret.arg) >= 4)
    => /\ ret.opt = Some(CcittOfMasked(ret.arg))
       /\ ret.arg = KnownVector => ret.opt = Some(12137)

C26_Witness ==
    /\ ret.fn = "lepton_packet_crc16_spec"
    /\ ret.arg = KnownVector
    /\ ret.opt = Some(12137)
    /\ CcittOfMasked(ret.arg) = 12137

\* the CRC field of the packet holds the CRC of the packet
CrcFieldMatches(p) ==
    p[3] * 256 + p[4] = lepton_packet_crc16_spec(p).value

\* q is p with one payload byte (index >= 4, counted from 0) changed
OnePayloadByteChanged(p, q) ==
    /\ Len(p) = Len(q)
    /\ \E i \in 5..Len(p) :
         /\ p[i] # q[i]
         /\ \A j \in (1..Len(p)) \ {i} : p[j] = q[j]

ValidatesMatchingField ==
    (ret.fn = "validate_packet_crc" /\ Len(ret.arg) >= 5 /\ CrcFieldMatches(ret.arg))
    => ret.flag

CorruptionDetected ==
    (/\ ret.fn = "validate_packet_crc"
     /\ Len(ret.arg) >= 5
     /\ CrcFieldMatches(ret.arg)
     /\ ret'.fn = "validate_packet_crc"
     /\ OnePayloadByteChanged(ret.arg, ret'.arg))
    => ~ret'.flag

\* C27: for a packet of at least 5 bytes whose CRC field equals its
\* normalized CRC validate_packet_crc returns true, and after any single
\* payload byte (index >= 4) is changed to a different value it returns false.
C27_Validate == []ValidatesMatchingField /\ [][CorruptionDetected]_vars

C27_Witness ==
    /\ ret.fn = "validate_packet_crc"
    /\ ret.second
    /\ ret.arg = pkt
    /\ ~ret.flag
    /\ Len(pkt) = MaxPacketLen
    /\ pkt[MaxPacketLen] = 255

---------------------------------------------------------------------------
(* The camera check *)

\* C28: check_camera never panics; whatever the CCI and SPI devices do, it
\* returns a report with one entry per test pattern, a failed test being an
\* entry with ok = false.
C28_NeverPanics ==
    /\ cc.pc # "panic"
    /\ cc.pc = "done" => Len(cc.tests) = Len(CameraTests)

---------------------------------------------------------------------------
(* The errors at the entry points *)

\* the expected and observed values an error hands its caller, if any
Carried(err) ==
    IF {"expected", "observed"} \subseteq DOMAIN err
    THEN <<err.expected, err.observed>>
    ELSE <<>>

\* the latest attempt started Locked and failed on a line or segment
\* violation
LockedViolation ==
    /\ LockedFatalFailure
    /\ LastFailure.kind \in {"LineOutOfOrder", "SegmentOutOfOrder"}

\* C29: the expected and observed values of a Locked line or segment
\* violation reach the caller unchanged through every public capture entry
\* point: capture_frame_into, capture_frame_from_source and the
\* Lepton::read_frame_robust* wrappers.
C29_Preserved ==
    LockedViolation
    => \A entry \in VospiEntryPoints \cup LeptonEntryPoints :
         LET r == entry_point_returns(entry, result) IN
         /\ Returned
         /\ r.tag = "Err"
         /\ r.err.kind = LastFailure.kind
         /\ Carried(r.err) = <<LastFailure.expected, LastFailure.observed>>

---------------------------------------------------------------------------
(* CRC mismatches *)

\* an attempt reads a packet that is not a discard packet and whose CRC
\* field differs from its CRC, with enable_crc = true
CrcMismatchRead ==
    /\ cfg.enable_crc
    /\ pc = "read"
    /\ obs'.reads = obs.reads + 1
    /\ obs'.last.packet # <<>>
    /\ ~is_discard_packet(obs'.last.packet)
    /\ ~validate_packet_crc(obs'.last.packet)

\* what the claim says of that packet
CrcMismatchHandled ==
    /\ diagnostics'.crc_error_count = wrapping_inc(diagnostics.crc_error_count)
    /\ meta'.crc_errors = meta.crc_errors + 1
    /\ IF locked
       THEN /\ AttemptFailed'
            /\ LastFailure' = Err("CrcMismatch")
       ELSE /\ ~AttemptFailed'
            /\ pc' = "read"
            /\ expected_segment' = 1
            /\ expected_packet_number' = 0
            /\ frame' = frame
            /\ packets_seen' = packets_seen + 1
            /\ obs'.attempts = obs.attempts

\* C30 as stated: with enable_crc = true a non-discard packet whose CRC
\* field differs from its normalized CRC adds exactly 1 to the cumulative
\* crc_error_count and to the per-frame crc_errors; a Locked attempt then
\* fails with CrcMismatch, a Seeking attempt resets its cursors to (segment
\* 1, line 0), drops the packet and goes on.
C30_AsStated == [][CrcMismatchRead => CrcMismatchHandled]_vars

\* C30, amended: the same, unless the packet is packet number
\* timeout_packets + 1 of the attempt (the attempt then fails with Timeout
\* and the CRC counters stay as they were).
C30_CrcMismatch ==
    [][(CrcMismatchRead /\ packets_seen + 1 <= cfg.timeout_packets)
       => CrcMismatchHandled]_vars

\* a Seeking attempt that had accepted a line dropped a packet with a wrong
\* CRC field, went back to (segment 1, line 0) and goes on
C30_Witness ==
    /\ cfg.enable_crc
    /\ ReadInAttempt
    /\ ~locked
    /\ ~is_discard_packet(obs.last.packet)
    /\ ~validate_packet_crc(obs.last.packet)
    /\ obs.last.seen <= cfg.timeout_packets
    /\ obs.last.line >= 1
    /\ meta.crc_errors = 1
    /\ pc = "read"
    /\ expected_segment = 1
    /\ expected_packet_number = 0
    /\ ~AttemptFailed

---------------------------------------------------------------------------
(* Seeking at the start of a frame *)

\* a Seeking attempt whose cursors are at (segment 1, line 0) reads a packet
\* that is not a discard packet and whose line number is not 0
SeekingSkipRead ==
    /\ pc = "read"
    /\ obs'.reads = obs.reads + 1
    /\ obs'.last.packet # <<>>
    /\ ~locked
    /\ expected_segment = 1
    /\ expected_packet_number = 0
    /\ ~is_discard_packet(obs'.last.packet)
    /\ line_number(obs'.last.packet).value # 0

\* the packet is dropped and nothing else happens
SilentlyDropped ==
    /\ pc' = "read"
    /\ ~AttemptFailed'
    /\ obs'.attempts = obs.attempts
    /\ expected_segment' = 1
    /\ expected_packet_number' = 0
    /\ frame' = frame
    /\ obs'.writes = obs.writes
    /\ diagnostics' = diagnostics
    /\ meta' = meta
    /\ packets_seen' = packets_seen + 1

\* C31 as stated: in a Seeking attempt whose cursors are at (segment 1, line
\* 0) every non-discard packet whose line number is not 0 is dropped
\* silently: the cursors stay at (1, 0), nothing is written to the pixel
\* buffer and no cumulative or per-frame error counter changes.
C31_AsStated == [][SeekingSkipRead => SilentlyDropped]_vars

\* C31, amended: the same for a packet that is within the packet budget of
\* the attempt (not packet number timeout_packets + 1, which fails the
\* attempt with Timeout) and, with enable_crc = true, has a right CRC field
\* (a wrong one adds 1 to both CRC counters; the cursors stay at (1, 0) and
\* nothing is written all the same).
C31_SeekingSkip ==
    [][(/\ SeekingSkipRead
        /\ packets_seen + 1 <= cfg.timeout_packets
        /\ ~cfg.enable_crc \/ validate_packet_crc(obs'.last.packet))
       => SilentlyDropped]_vars

\* a Seeking attempt at (1, 0) has dropped two packets with line numbers
\* other than 0 and goes on with all counters as they were
C31_Witness ==
    /\ ReadInAttempt
    /\ ~locked
    /\ obs.last.segment = 1
    /\ obs.last.line = 0
    /\ ~is_discard_packet(obs.last.packet)
    /\ line_number(obs.last.packet).value # 0
    /\ validate_packet_crc(obs.last.packet)
    /\ obs.att_reads = 2
    /\ obs.writes = <<>>
    /\ pc = "read"
    /\ expected_segment = 1
    /\ expected_packet_number = 0
    /\ diagnostics = obs.att_diag
    /\ meta = [FrameMetaDefault EXCEPT !.capture_ticks = meta.capture_ticks]

---------------------------------------------------------------------------
(* Discard packets *)

\* an attempt reads a discard packet (top nibble of the ID 0xF)
DiscardRead ==
    /\ pc = "read"
    /\ obs'.reads = obs.reads + 1
    /\ Len(obs'.last.packet) >= 4
    /\ IdOf(obs'.last.packet) \div 4096 = 15

\* cursors, pixel buffer, CRC and line counters as they were; the two discard
\* counters one up
DiscardSkipped ==
    /\ expected_segment' = expected_segment
    /\ expected_packet_number' = expected_packet_number
    /\ frame' = frame
    /\ obs'.writes = obs.writes
    /\ diagnostics'.crc_error_count = diagnostics.crc_error_count
    /\ meta'.crc_errors = meta.crc_errors
    /\ diagnostics'.bad_line_count = diagnostics.bad_line_count
    /\ meta'.bad_line_count = meta.bad_line_count
    /\ diagnostics'.discard_count = wrapping_inc(diagnostics.discard_count)
    /\ meta'.discard_packets = meta.discard_packets + 1

\* The source delivered the packets of one well-formed frame from its first
\* packet on, with discard packets inserted between them and nothing else,
\* within the budgets: no more discard packets than max_discard_packets, no
\* more packets than timeout_packets.
FrameWithDiscards ==
    /\ Returned
    /\ obs.via = "capture_frame_from_source"
    /\ cfg.packet_size_bytes = 5
    /\ cfg.lines_per_segment >= 1
    /\ ~src_bad_crc
    /\ obs.entry_pos = 0
    /\ obs.spi.at = 0
    /\ Len(obs.noise) >= 1
    /\ \A i \in 1..Len(obs.noise) : obs.noise[i].discard /\ obs.noise[i].inserted
    /\ Len(obs.noise) <= cfg.max_discard_packets
    /\ FramePackets(cfg) + Len(obs.noise) <= cfg.timeout_packets

\* the frame is captured as it is without the discard packets
CapturedAsWithout ==
    /\ result.tag = "Ok"
    /\ obs.attempts = 1
    /\ obs.reads = FramePackets(cfg) + Len(obs.noise)
    /\ HoldsTheFrame
    /\ result.meta.discard_packets = Len(obs.noise)
    /\ result.meta.crc_errors = 0
    /\ result.meta.resync_count = 0

\* C32 as stated: a discard packet read during an attempt leaves the
\* cursors and the pixel buffer unchanged, is not CRC-checked and adds
\* exactly 1 to discard_count and to discard_packets.
C32_AsStated == [][DiscardRead => DiscardSkipped]_vars

\* C32, amended: the same for a discard packet within the packet budget of
\* the attempt (packet number timeout_packets + 1 fails the attempt with
\* Timeout and is not counted); and a frame interleaved with discard packets
\* within the budgets is assembled exactly as without them, in Locked and in
\* Seeking.
C32_Discards ==
    /\ [](FrameWithDiscards => CapturedAsWithout)
    /\ [][(DiscardRead /\ packets_seen + 1 <= cfg.timeout_packets)
          => DiscardSkipped]_vars

\* a Locked attempt under enable_crc = true has just read, between lines 0
\* and 1 of segment 1, a discard packet whose CRC field is wrong
C32_Witness ==
    /\ ReadInAttempt
    /\ pc = "read"
    /\ locked
    /\ cfg.enable_crc
    /\ Len(obs.last.packet) >= 4
    /\ IdOf(obs.last.packet) \div 4096 = 15
    /\ ~validate_packet_crc(obs.last.packet)
    /\ obs.last.segment = 1
    /\ obs.last.line = 1
    /\ expected_segment = 1
    /\ expected_packet_number = 1
    /\ Len(obs.writes) = 1
    /\ meta.discard_packets = 1
    /\ meta.crc_errors = 0
    /\ diagnostics.crc_error_count = obs.att_diag.crc_error_count
    /\ diagnostics.discard_count = wrapping_inc(obs.att_diag.discard_count)

---------------------------------------------------------------------------
(* The backoff reads *)

\* the latest attempt failed and its error was not surfaced immediately
RetriableFailure == AttemptFailed /\ ~LockedFatalFailure

\* where the drain after such an attempt stands
DrainState ==
    RetriableFailure =>
        /\ pc \in {"backoff", "loop", "idle"}
        /\ obs.backoff_reads <= cfg.backoff_packet_reads
        /\ pc = "backoff" => backoff_i = obs.backoff_reads
        /\ pc = "loop" => obs.backoff_reads = cfg.backoff_packet_reads
        /\ (pc = "idle" /\ obs.spi.at = 0) =>
              obs.backoff_reads = cfg.backoff_packet_reads
        /\ (pc = "idle" /\ obs.spi.at # 0) =>
              /\ obs.spi.phase = "backoff"
              /\ obs.spi.at = obs.reads
              /\ obs.backoff_reads < cfg.backoff_packet_reads
              /\ result = ResultErr(Spi(obs.spi.e))

\* a further attempt of the call starts
NextAttemptStarts == obs.attempts >= 1 /\ obs'.attempts = obs.attempts + 1

\* a packet is read, or fails to be read, in the backoff loop
DrainRead == obs'.reads = obs.reads + 1 /\ obs'.last.phase = "backoff"

DrainStep ==
    /\ NextAttemptStarts =>
          /\ RetriableFailure
          /\ obs.backoff_reads = cfg.backoff_packet_reads
          /\ obs.spi.at = 0
          /\ cfg.backoff_packet_reads > 0 => obs.last.phase = "backoff"
    /\ DrainRead =>
          /\ RetriableFailure
          /\ frame' = frame
          /\ diagnostics' = diagnostics
          /\ meta' = meta
          /\ expected_segment' = expected_segment
          /\ expected_packet_number' = expected_packet_number
          /\ packets_seen' = packets_seen
          /\ obs'.att_errs = obs.att_errs
          /\ IF obs'.last.packet = <<>>
             THEN /\ pc' = "idle"
                  /\ result' = ResultErr(Spi(obs'.spi.e))
                  /\ obs'.backoff_reads = obs.backoff_reads
             ELSE /\ pc' = "backoff"
                  /\ obs'.backoff_reads = obs.backoff_reads + 1

\* C33: after every failed attempt that is not surfaced immediately exactly
\* backoff_packet_reads packets are read and dropped unparsed before the next
\* attempt starts (or the call gives up); a transport error during the drain
\* ends the call with Spi(e).
C33_Backoff == []DrainState /\ [][DrainStep]_vars

\* the second attempt of a call has started after a drain of two packets
C33_Witness ==
    /\ obs.attempts = 2
    /\ Len(obs.att_errs) = 1
    /\ cfg.backoff_packet_reads = 2
    /\ obs.backoff_reads = 2
    /\ obs.last.phase = "backoff"
    /\ pc = "read"
    /\ packets_seen = 0
    /\ obs.reads >= 3

---------------------------------------------------------------------------
(* The two attempt counters *)

RetriableKinds == {"Timeout", "DiscardPacketFlood", "InvalidPacket"}

\* a call has returned after attempts that all failed with retriable errors
AllAttemptsRetriable ==
    /\ Returned
    /\ AttemptFailed
    /\ \A i \in 1..Len(obs.att_errs) : obs.att_errs[i].kind \in RetriableKinds

Min(a, b) == IF a <= b THEN a ELSE b

AttemptBudget == Min(cfg.max_frame_retries, cfg.max_resync_attempts) + 1

\* the two counters are equal, and count the failed attempts of the call
CountersEqual ==
    /\ resync_attempts = frame_attempts
    /\ pc \in {"read", "backoff", "loop"} => frame_attempts = Len(obs.att_errs)

\* C34 as stated: the two counters are equal throughout; a call whose
\* attempts all fail with retriable errors makes exactly
\* min(max_frame_retries, max_resync_attempts) + 1 attempts; and when
\* max_resync_attempts >= max_frame_retries it returns the error of its last
\* failed attempt, never SyncLost.
C34_AsStated ==
    /\ CountersEqual
    /\ AllAttemptsRetriable => obs.attempts = AttemptBudget
    /\ (AllAttemptsRetriable /\ cfg.max_resync_attempts >= cfg.max_frame_retries)
       => (result = ResultErr(LastFailure) /\ ~ReturnsSyncLost)

\* C34, amended: the same when no backoff read fails and with
\* max_resync_attempts > max_frame_retries for the last part; with
\* max_resync_attempts <= max_frame_retries the call returns SyncLost.
C34_Attempts ==
    /\ CountersEqual
    /\ (AllAttemptsRetriable /\ obs.spi.at = 0) => obs.attempts = AttemptBudget
    /\ (AllAttemptsRetriable /\ obs.spi.at = 0
        /\ cfg.max_resync_attempts > cfg.max_frame_retries)
       => (/\ result = ResultErr(LastFailure)
           /\ result.err.kind \in RetriableKinds)
    /\ (AllAttemptsRetriable /\ obs.spi.at = 0
        /\ cfg.max_resync_attempts <= cfg.max_frame_retries)
       => ReturnsSyncLost

\* with max_resync_attempts = max_frame_retries = 1 a call has returned
\* after two attempts that both timed out
C34_Witness ==
    /\ AllAttemptsRetriable
    /\ obs.spi.at = 0
    /\ cfg.max_resync_attempts = 1
    /\ cfg.max_frame_retries = 1
    /\ obs.attempts = 2
    /\ obs.att_errs[1].kind = "Timeout"
    /\ obs.att_errs[2].kind = "Timeout"
    /\ ReturnsSyncLost

---------------------------------------------------------------------------
(* An endless repetition of well-formed frames *)

\* calls made on the stream
MaxStreamCalls == 24

\* geometries with a line 20, of two and of three segments, with
\* timeout_packets = 2 x S x L - 1; the first with a timeout_packets too
\* small for a frame; and the geometry without a line 20
StreamConfigs ==
    {Cfg(TRUE, 2, 1, 5, 21, 2, 1, 83, 1),
     Cfg(TRUE, 2, 1, 5, 21, 3, 1, 125, 1),
     Cfg(TRUE, 2, 1, 5, 21, 2, 1, 2, 1),
     Cfg(TRUE, 2, 1, 5, 2, 2, 1, 7, 1)}

\* enum SyncState
SyncStates == {"Unsynced", "Seeking", "Locked"}

\* A latch and a sync_state as a caller may pass them (any combination), on a
\* source that delivers the frame over and over from any (segment, line)
\* offset on: no packet is replaced or inserted; a read may fail.
StreamInit ==
    /\ cfg \in StreamConfigs
    /\ first_valid_synced \in BOOLEAN
    /\ sync_state \in SyncStates
    /\ diagnostics = FrameDiagnosticsDefault
    /\ ticks = 0
    /\ calls = MaxCalls - MaxStreamCalls
    /\ src_pos \in 0..(FramePackets(cfg) - 1)
    /\ src_bad_crc = FALSE
    /\ frame = <<>>
    /\ pc = "idle"
    /\ frame_attempts = 0
    /\ resync_attempts = 0
    /\ last_error = NoError
    /\ meta = FrameMetaDefault
    /\ backoff_i = 0
    /\ expected_segment = 1
    /\ expected_packet_number = 0
    /\ packets_seen = 0
    /\ locked = FALSE
    /\ result = NoResult
    /\ noise_left = 0
    /\ src_run = FALSE
    /\ obs = ObsAtEntry
    /\ pkt = <<>>
    /\ ret = NoReturn
    /\ cc = CheckIdle
    /\ hist = [constructed |-> FALSE, oks |-> 0]

\* a call of capture_frame_from_source, which allocates the two buffers, by
\* a caller that calls until it is returned a frame or a transport error
DriverCall ==
    /\ pc = "idle"
    /\ calls < MaxCalls
    /\ result.tag # "Ok"
    /\ ~(result.tag = "Err" /\ result.err.kind = "Spi")
    /\ LET b == [via |-> "capture_frame_from_source",
                 frame |-> Zeros(required_frame_buffer_len(cfg)),
                 packet_buf_len |-> cfg.packet_size_bytes]
           k == [Ctl EXCEPT !.frame_attempts = 0, !.resync_attempts = 0,
                            !.last_error = NoError, !.result = NoResult,
                            !.pc = "loop"]
       IN  /\ frame' = b.frame
           /\ SetCtl(IF preconditions_hold(cfg, Len(b.frame), b.packet_buf_len)
                     THEN k
                     ELSE return(k, ResultErr(Err("InvalidPacket"))))
           /\ obs' = [ObsAtEntry EXCEPT !.via = b.via,
                                        !.entry_frame = b.frame,
                                        !.entry_packet_buf_len = b.packet_buf_len]
    /\ calls' = calls + 1
    /\ UNCHANGED <<cfg, src_bad_crc, pkt, ret, cc, expected_segment,
                   expected_packet_number, packets_seen, locked, ticks, src_pos,
                   noise_left, src_run, hist>>

StreamNext ==
    \/ DriverCall
    \/ AttemptStart
    \/ ReadPacket
    \/ FrameComplete
    \/ BackoffRead
    \/ BackoffDone

StreamSpec == StreamInit /\ [][StreamNext]_vars

\* the driver is called again and again, and every read_packet call returns
\* (a packet or an error)
StreamFairSpec == StreamSpec /\ WF_vars(StreamNext)

\* 2 x S x L - 1
SeekBound == 2 * FramePackets(cfg) - 1

\* a call that passed the preconditions, entered with the latch false on a
\* geometry with a line 20, all of whose reads so far returned a packet
SeekingOnStream ==
    /\ obs.via # ""
    /\ ~EnteredWithoutPreconditions
    /\ ~obs.entry_latch
    /\ cfg.lines_per_segment > SEGMENT_LINE
    /\ obs.noise = <<>>
    /\ ~src_bad_crc
    /\ obs.spi.at = 0

\* C35: such a call, when timeout_packets >= 2 x S x L - 1, returns Ok from
\* its first attempt after at most 2 x S x L - 1 packets, whatever the offset
\* the stream started at, and the buffer holds segments 1..S of one frame of
\* the stream (the S x L packets read last), each in its own slot.
C35_SeekingLocks ==
    (SeekingOnStream /\ cfg.timeout_packets >= SeekBound)
    => /\ obs.attempts <= 1
       /\ obs.att_errs = <<>>
       /\ obs.reads <= SeekBound
       /\ Returned =>
             /\ result.tag = "Ok"
             /\ HoldsTheFrame
             /\ LastOf(obs.writes, FramePackets(cfg)) = SlotsInOrder
             /\ src_pos = 0
             /\ obs.reads >= FramePackets(cfg)

\* on three segments a call entered at line 1 of segment 1 returned the
\* frame after 2 x S x L - 1 packets
C35_Witness ==
    /\ SeekingOnStream
    /\ cfg.timeout_packets >= SeekBound
    /\ cfg.segments_per_frame = 3
    /\ obs.entry_pos = 1
    /\ Returned
    /\ result.tag = "Ok"
    /\ obs.reads = SeekBound
    /\ HoldsTheFrame

---------------------------------------------------------------------------
(* Recovery over repeated calls *)

CallReturnedOk == Returned /\ result.tag = "Ok"

\* a call that returned an error has read at least one packet, unless its
\* first read failed
FailedCallConsumes == (FailedCall /\ obs.spi.at # 1) => obs.reads >= 1

\* once the latch is set it stays set, and every attempt runs Locked
NeverSeekingAgain ==
    first_valid_synced =>
        /\ first_valid_synced'
        /\ pc' = "read" => (locked' /\ sync_state' = "Locked")

---------------------------------------------------------------------------
(* The FrameMeta of a returned frame *)

\* C37: the FrameMeta a call returns with Ok has resync_count = 0 and
\* bad_line_count = 0 whatever happened in earlier attempts of the call, has
\* discard_packets <= max_discard_packets, has crc_errors = 0 if the attempt
\* ran Locked, and its discard_packets and crc_errors count the packets of
\* the successful attempt only.
C37_OkMeta ==
    CallReturnedOk =>
        /\ result.meta = meta
        /\ meta.valid
        /\ meta.resync_count = 0
        /\ meta.bad_line_count = 0
        /\ meta.discard_packets <= cfg.max_discard_packets
        /\ locked => meta.crc_errors = 0
        /\ meta.discard_packets = obs.att_discards
        /\ diagnostics.discard_count
              = obs.att_diag.discard_count + meta.discard_packets
        /\ diagnostics.crc_error_count
              = obs.att_diag.crc_error_count + meta.crc_errors
        /\ meta.crc_errors <= obs.att_reads - FramePackets(cfg)

\* the second attempt of a call returned a frame with one discard packet
\* counted, after a first attempt that had counted two and failed
C37_Witness ==
    /\ CallReturnedOk
    /\ obs.attempts = 2
    /\ obs.att_errs[1].kind = "DiscardPacketFlood"
    /\ meta.discard_packets = 1
    /\ meta.resync_count = 0
    /\ diagnostics.resync_count = obs.entry_diag.resync_count + 1
    /\ diagnostics.discard_count = obs.att_diag.discard_count + 1
    /\ obs.att_diag.discard_count = obs.entry_diag.discard_count + 2

---------------------------------------------------------------------------
(* The bounds of the pixel buffer *)

\* a call that passed the preconditions
PassedPreconditions == obs.via # "" /\ ~EnteredWithoutPreconditions

\* C38: in a call that passed the preconditions, lines_per_segment = 0 and
\* segments_per_frame = 0 included, every payload copy targets a line slot
\* below S x L, inside the first required_frame_buffer_len(cfg) bytes of the
\* frame buffer, and no copy panics on an index out of bounds.
C38_InBounds ==
    PassedPreconditions =>
        /\ result # ResultPanic
        /\ \A i \in 1..Len(obs.writes) : obs.writes[i] < FramePackets(cfg)
        /\ Len(frame) = Len(obs.entry_frame)

---------------------------------------------------------------------------
(* The incoming sync_state *)

\* the sync_state the latch alone gives an attempt
ModeOf(latch) == IF latch THEN "Locked" ELSE "Seeking"

\* the sync_state a call leaves, from its result and the latch it was
\* entered with
FinalSyncState ==
    IF result.tag = "Ok" THEN "Locked"
    ELSE IF result.err.kind = "Spi" /\ obs.spi.phase = "assemble"
    THEN ModeOf(obs.entry_latch)
    ELSE "Unsynced"

\* C39: in a call that passed the preconditions the incoming sync_state has
\* no influence: the head of the retry loop leaves the same state whatever
\* sync_state it finds, so from there on two calls that differ in it alone
\* read the same packets and end alike; every attempt runs in the mode the
\* latch gives, and the sync_state the call leaves is given by its result and
\* the latch.
C39_NoInfluence ==
    /\ (pc = "loop" /\ PassedPreconditions) =>
          \A v \in SyncStates :
              loop_head([Ctl EXCEPT !.sync_state = v], cfg, ticks)
                  = loop_head(Ctl, cfg, ticks)
    /\ pc = "read" =>
          /\ first_valid_synced = obs.entry_latch
          /\ locked = obs.entry_latch
          /\ sync_state = ModeOf(obs.entry_latch)
    /\ (Returned /\ PassedPreconditions) => sync_state = FinalSyncState

\* a call entered with the latch false and sync_state Locked ran Seeking: it
\* skipped the packets before line 0 and returned a frame
C39_Witness ==
    /\ CallReturnedOk
    /\ PassedPreconditions
    /\ ~obs.entry_latch
    /\ obs.entry_state = "Locked"
    /\ obs.entry_pos = 1
    /\ obs.reads > FramePackets(cfg)
    /\ HoldsTheFrame
    /\ sync_state = "Locked"

---------------------------------------------------------------------------
(* The order of the checks on a packet *)

\* a Locked attempt under enable_crc = true has read a packet, not a discard
\* packet, with a wrong CRC field and a line number other than the line cursor
LockedCrcAndLineWrong ==
    /\ ReadInAttempt
    /\ locked
    /\ cfg.enable_crc
    /\ ~is_discard_packet(obs.last.packet)
    /\ ~validate_packet_crc(obs.last.packet)
    /\ line_number(obs.last.packet).value # obs.last.line

\* the attempt failed with CrcMismatch and counted no bad line
FailsWithCrcMismatch ==
    /\ AttemptFailed
    /\ LastFailure = Err("CrcMismatch")
    /\ diagnostics.bad_line_count = obs.att_diag.bad_line_count
    /\ meta.bad_line_count = 0
    /\ meta.crc_errors = 1

\* the packet read last made the attempt fail on its segment bits
FailedOnSegmentBits ==
    /\ ReadInAttempt
    /\ AttemptFailed
    /\ \/ LastFailure.kind = "SegmentOutOfOrder"
       \/ LastFailure.kind = "InvalidPacket" /\ Len(obs.last.packet) >= PACKET_HEADER_BYTES

\* the packet passed the discard, CRC and line checks, at line 20
PassedToLine20 ==
    /\ ~is_discard_packet(obs.last.packet)
    /\ ~cfg.enable_crc \/ validate_packet_crc(obs.last.packet)
    /\ line_number(obs.last.packet).value = obs.last.line
    /\ obs.last.line = SEGMENT_LINE

\* C40 as stated: the checks on a packet come in the order discard, CRC, line
\* number, segment number: a Locked attempt with enable_crc = true that
\* reads a non-discard packet with a wrong CRC and an unexpected line number
\* fails with CrcMismatch and counts no bad line, and the segment bits
\* decide only for a packet whose line number matched the cursor at line 20.
C40_AsStated ==
    /\ LockedCrcAndLineWrong => FailsWithCrcMismatch
    /\ FailedOnSegmentBits => PassedToLine20

\* C40, amended: the same for a packet within the packet budget of the
\* attempt (packet number timeout_packets + 1 fails it with Timeout before
\* any of the checks).
C40_CheckOrder ==
    /\ (LockedCrcAndLineWrong /\ obs.last.seen <= cfg.timeout_packets)
       => FailsWithCrcMismatch
    /\ FailedOnSegmentBits => PassedToLine20

\* a Locked attempt that had accepted line 0 read a packet with line number
\* 0 again and a wrong CRC field, and failed with CrcMismatch
C40_Witness ==
    /\ LockedCrcAndLineWrong
    /\ obs.last.seen <= cfg.timeout_packets
    /\ FailsWithCrcMismatch
    /\ obs.last.line = 1
    /\ line_number(obs.last.packet).value = 0
    /\ Len(obs.writes) = 1
    /\ Returned

=============================================================================
